---- MODULE Spec2Model ----
(***************************************************************************)
(* Currency conversion service: rate resolution through a Redis cache, an  *)
(* external exchange-rate provider and a static fallback table.            *)
(*                                                                         *)
(* A rate (a Python float) is an exact fraction <<n, d>> in lowest terms;  *)
(* None is the empty tuple.  Time is counted in seconds.                  *)
(***************************************************************************)
EXTENDS Integers, Sequences, FiniteSets, TLC

VARIABLES
    client,     \* RedisCache._client is not None
    store,      \* the Redis database: key -> [data, exp]
    reachable,  \* the Redis server answers commands
    now,        \* wall clock, seconds
    phase,      \* "idle" | "running" | "returned": the call in progress
    op,         \* the operation called last
    tasks,      \* the convert coroutines of the call, one record each
    out,        \* what the call returned or raised
    prev,       \* summary of the call before this one
    calls,      \* number of calls made so far
    ret,        \* what the last direct RedisCache call returned
    redis_cache,  \* the module's _redis_cache: 0 (None) or a RedisCache object
    connection,   \* the one AsyncRedisConnection's _client: 0 (None) or a client
    handles,      \* the RedisCache objects created so far: _client of each
    initialized   \* init_redis has returned and shutdown_redis has not since

vars == <<client, store, reachable, now, phase, op, tasks, out, prev, calls, ret,
          redis_cache, connection, handles, initialized>>

lifecycle == <<redis_cache, connection, handles, initialized>>

----------------------------------------------------------------------------
(* Bounds of the model *)

MaxCalls == 2
MaxBatch == 3
MaxTicks == 2

\* significant bits of a float (53 in CPython), scaled to the model's integers
FloatBits == 8

----------------------------------------------------------------------------
(* Program constants *)

CACHE_TTL_SECONDS == 1800

CACHE_PREFIX == "exchange_rate"

Currency == {"USD", "EUR", "GBP", "JPY", "INR", "AED", "UZS"}

None == <<>>

----------------------------------------------------------------------------
(* Float arithmetic, as exact fractions *)

RECURSIVE GCD(_, _)
GCD(a, b) == IF b = 0 THEN a ELSE GCD(b, a % b)

Abs(x) == IF x < 0 THEN -x ELSE x

Rat(n, d) ==
    LET g == GCD(Abs(n), Abs(d))
        s == IF d < 0 THEN -1 ELSE 1
    IN  IF n = 0 THEN <<0, 1>> ELSE <<s * (n \div g), s * (d \div g)>>

RatMul(a, b) == Rat(a[1] * b[1], a[2] * b[2])

RatDiv(a, b) == Rat(a[1] * b[2], a[2] * b[1])

One == Rat(1, 1)

RECURSIVE ScaleUp(_, _, _)
ScaleUp(n, d, k) ==
    IF n * 2^k >= d * 2^(FloatBits - 1) THEN k ELSE ScaleUp(n, d, k + 1)

RECURSIVE ScaleDown(_, _, _)
ScaleDown(n, d, k) ==
    IF n < d * 2^(FloatBits + k) THEN k ELSE ScaleDown(n, d, k + 1)

\* n / d as an integer, to nearest, ties to even
RoundHalfEven(n, d) ==
    LET q == n \div d
        r == n % d
    IN  IF 2 * r < d THEN q
        ELSE IF 2 * r > d THEN q + 1
        ELSE IF q % 2 = 0 THEN q ELSE q + 1

\* the float nearest to x: FloatBits significant bits, ties to even
FloatOf(x) ==
    LET a == Abs(x[1])
        s == IF x[1] < 0 THEN -1 ELSE 1
    IN  IF a = 0 THEN Rat(0, 1)
        ELSE IF a >= x[2] * 2^FloatBits
        THEN LET k == ScaleDown(a, x[2], 1)
             IN  Rat(s * RoundHalfEven(a, x[2] * 2^k) * 2^k, 1)
        ELSE LET k == ScaleUp(a, x[2], 0)
             IN  Rat(s * RoundHalfEven(a * 2^k, x[2]), 2^k)

\* a * b in float arithmetic
FloatMul(a, b) == FloatOf(RatMul(a, b))

\* Python truthiness of an optional float: None and 0.0 are falsy
Truthy(x) == x # None /\ x[1] # 0

\* round(x, 2): to the nearest hundredth, ties to even
Round2(x) ==
    LET n == 100 * Abs(x[1])
        q == n \div x[2]
        r == n % x[2]
        k == IF 2 * r < x[2] THEN q
             ELSE IF 2 * r > x[2] THEN q + 1
             ELSE IF q % 2 = 0 THEN q ELSE q + 1
    IN  Rat((IF x[1] < 0 THEN -1 ELSE 1) * k, 100)

----------------------------------------------------------------------------
(* JSON text of a cached value *)

JsonDumps(v) == [json |-> v]

JsonLoads(s) ==
    IF "json" \in DOMAIN s
    THEN [ok |-> TRUE, value |-> s.json]
    ELSE [ok |-> FALSE, value |-> None]

----------------------------------------------------------------------------
(* RedisCache.  up: the backing store answers the command. *)

Returned(v) == [raised |-> FALSE, value |-> v]

Raised(e) == [raised |-> TRUE, value |-> None, error |-> e]

Put(st, key, entry) ==
    [k \in DOMAIN st \cup {key} |-> IF k = key THEN entry ELSE st[k]]

Drop(st, keys) == [k \in DOMAIN st \ keys |-> st[k]]

Empty == [k \in {} |-> None]

RedisCache_get(key, up) ==
    IF ~client THEN Returned(None)
    ELSE IF ~up THEN Returned(None)
    ELSE IF key \notin DOMAIN store THEN Returned(None)
    ELSE LET d == JsonLoads(store[key].data)
         IN  IF d.ok THEN Returned(d.value) ELSE Returned(None)

\* faulty variant: SETEX with twice the time to live it was given
RedisCache_set_double_ttl(key, value, ttl_seconds, up) ==
    IF ~client THEN [raised |-> FALSE, store |-> store]
    ELSE IF ~up THEN [raised |-> FALSE, store |-> store]
    ELSE [raised |-> FALSE,
          store  |-> Put(store, key,
                         [data |-> JsonDumps(value),
                          exp  |-> now + 2 * ttl_seconds])]

\* the store after RedisCache.set, and what the call returned
RedisCache_set(key, value, ttl_seconds, up) ==
    IF ~client THEN [raised |-> FALSE, store |-> store]
    ELSE IF ~up THEN [raised |-> FALSE, store |-> store]
    ELSE [raised |-> FALSE,
          store  |-> Put(store, key,
                         [data |-> JsonDumps(value), exp |-> now + ttl_seconds])]

\* the store after RedisCache.delete
RedisCache_delete(key, up) ==
    IF ~client THEN [raised |-> FALSE, store |-> store]
    ELSE IF ~up THEN [raised |-> FALSE, store |-> store]
    ELSE [raised |-> FALSE, store |-> Drop(store, {key})]

\* the store after RedisCache.clear (FLUSHDB)
RedisCache_clear(up) ==
    IF ~client THEN [raised |-> FALSE, store |-> store]
    ELSE IF ~up THEN [raised |-> FALSE, store |-> store]
    ELSE [raised |-> FALSE, store |-> Empty]

\* faulty variant: a store error escapes exists
RedisCache_exists_uncaught(key, up) ==
    IF ~client THEN Returned(FALSE)
    ELSE IF ~up THEN Raised("ConnectionError")
    ELSE Returned(key \in DOMAIN store)

RedisCache_exists(key, up) ==
    IF ~client THEN Returned(FALSE)
    ELSE IF ~up THEN Returned(FALSE)
    ELSE Returned(key \in DOMAIN store)

\* a mapping of the keys found to their decoded values (the raw text when it
\* is not JSON)
RedisCache_mget(keys, up) ==
    IF ~client THEN Returned(Empty)
    ELSE IF ~up THEN Returned(Empty)
    ELSE Returned([k \in keys \cap DOMAIN store |->
                     LET d == JsonLoads(store[k].data)
                     IN  IF d.ok THEN d.value ELSE store[k].data])

\* the store after RedisCache.mset: one SETEX per key, in one pipeline
RedisCache_mset(data, ttl_seconds, up) ==
    IF ~client THEN [raised |-> FALSE, store |-> store]
    ELSE IF ~up THEN [raised |-> FALSE, store |-> store]
    ELSE [raised |-> FALSE,
          store  |-> [k \in DOMAIN store \cup DOMAIN data |->
                        IF k \in DOMAIN data
                        THEN [data |-> JsonDumps(data[k]),
                              exp  |-> now + ttl_seconds]
                        ELSE store[k]]]

\* faulty variant: no check for a missing client
RedisCache_get_stats_unguarded(up) ==
    IF ~client \/ ~up THEN Returned([status |-> "error"])
    ELSE Returned([status       |-> "connected",
                   total_keys   |-> Cardinality(DOMAIN store),
                   cached_rates |-> Cardinality(DOMAIN store)])

RedisCache_get_stats(up) ==
    IF ~client THEN Returned([status |-> "not_connected"])
    ELSE IF ~up THEN Returned([status |-> "error"])
    ELSE Returned([status       |-> "connected",
                   total_keys   |-> Cardinality(DOMAIN store),
                   cached_rates |-> Cardinality(DOMAIN store)])

----------------------------------------------------------------------------
(* ExchangeRateClient.  A provider response is an input of the call:       *)
(* kind "ok" with the payload's rates (EUR based), or a failure.           *)

FailureKinds == {"RequestError", "HTTPStatusError", "ErrorPayload"}

\* EUR-based rates a payload may quote for a currency; 0 is a falsy rate
PayloadValues == {0, 1, 2}

PayloadRates(targets) ==
    UNION {[S -> PayloadValues] : S \in SUBSET targets}

Responses(targets) ==
    {[kind |-> k, rates |-> Empty] : k \in FailureKinds}
        \cup {[kind |-> "ok", rates |-> r] : r \in PayloadRates(targets)}

\* the denominator of a payload's numerals: whole numbers, unless the
\* payload names a unit
Unit(resp) == IF "unit" \in DOMAIN resp THEN resp.unit ELSE 1

\* rates: the payload's numerals as response.json() reads them
get_exchange_rates(base_currency, target_currencies, resp) ==
    IF resp.kind # "ok"
    THEN [ok |-> FALSE, error |-> resp.kind, rates |-> Empty, base |-> "EUR"]
    ELSE [ok |-> TRUE, error |-> "none",
          rates |-> [c \in DOMAIN resp.rates |-> Rat(resp.rates[c], Unit(resp))],
          base |-> "EUR"]

\* dict.get on the payload's rates
RateOf(rates, code) ==
    IF code \in DOMAIN rates THEN rates[code] ELSE None

\* the symbols ExchangeRateClient.get_rate asks the provider for
RateTargets(from_currency, to_currency) ==
    IF from_currency = "EUR" THEN {to_currency}
    ELSE IF to_currency = "EUR" THEN {from_currency}
    ELSE {from_currency, to_currency}

\* faulty variant: the cross rate is taken the wrong way round
ExchangeRateClient_get_rate_inverted(from_currency, to_currency, resp) ==
    IF from_currency = to_currency
    THEN [ok |-> TRUE, rate |-> One, error |-> "none", available |-> {},
          requests |-> 0]
    ELSE
      LET data == get_exchange_rates("EUR",
                                     RateTargets(from_currency, to_currency), resp)
          eur_to_from == RateOf(data.rates, from_currency)
          eur_to_to   == RateOf(data.rates, to_currency)
          rate ==
              IF from_currency = "EUR" THEN eur_to_to
              ELSE IF to_currency = "EUR"
                   THEN IF Truthy(eur_to_from) THEN RatDiv(One, eur_to_from)
                        ELSE None
              ELSE IF Truthy(eur_to_from) /\ Truthy(eur_to_to)
                   THEN RatDiv(eur_to_from, eur_to_to)
                   ELSE None
      IN  IF ~data.ok
          THEN [ok |-> FALSE, rate |-> None, error |-> data.error,
                available |-> {}, requests |-> 1]
          ELSE IF rate = None
          THEN [ok |-> FALSE, rate |-> None, error |-> "RateUnavailable",
                available |-> DOMAIN data.rates, requests |-> 1]
          ELSE [ok |-> TRUE, rate |-> rate, error |-> "none",
                available |-> {}, requests |-> 1]

\* faulty variant: the rate to EUR is the entry itself, not its reciprocal
ExchangeRateClient_get_rate_no_reciprocal(from_currency, to_currency, resp) ==
    IF from_currency = to_currency
    THEN [ok |-> TRUE, rate |-> One, error |-> "none", available |-> {},
          requests |-> 0]
    ELSE
      LET data == get_exchange_rates("EUR",
                                     RateTargets(from_currency, to_currency), resp)
          eur_to_from == RateOf(data.rates, from_currency)
          eur_to_to   == RateOf(data.rates, to_currency)
          rate ==
              IF from_currency = "EUR" THEN eur_to_to
              ELSE IF to_currency = "EUR"
                   THEN IF Truthy(eur_to_from) THEN eur_to_from ELSE None
              ELSE IF Truthy(eur_to_from) /\ Truthy(eur_to_to)
                   THEN RatDiv(eur_to_to, eur_to_from)
                   ELSE None
      IN  IF ~data.ok
          THEN [ok |-> FALSE, rate |-> None, error |-> data.error,
                available |-> {}, requests |-> 1]
          ELSE IF rate = None
          THEN [ok |-> FALSE, rate |-> None, error |-> "RateUnavailable",
                available |-> DOMAIN data.rates, requests |-> 1]
          ELSE [ok |-> TRUE, rate |-> rate, error |-> "none",
                available |-> {}, requests |-> 1]

\* faulty variant: the reciprocal is taken of any entry that is not None
ExchangeRateClient_get_rate_zero_division(from_currency, to_currency, resp) ==
    IF from_currency = to_currency
    THEN [ok |-> TRUE, rate |-> One, error |-> "none", available |-> {},
          requests |-> 0]
    ELSE
      LET data == get_exchange_rates("EUR",
                                     RateTargets(from_currency, to_currency), resp)
          eur_to_from == RateOf(data.rates, from_currency)
          eur_to_to   == RateOf(data.rates, to_currency)
          divides == from_currency # "EUR" /\ eur_to_from = Rat(0, 1)
          rate ==
              IF from_currency = "EUR" THEN eur_to_to
              ELSE IF to_currency = "EUR"
                   THEN IF Truthy(eur_to_from) THEN RatDiv(One, eur_to_from)
                        ELSE None
              ELSE IF Truthy(eur_to_from) /\ Truthy(eur_to_to)
                   THEN RatDiv(eur_to_to, eur_to_from)
                   ELSE None
      IN  IF ~data.ok
          THEN [ok |-> FALSE, rate |-> None, error |-> data.error,
                available |-> {}, requests |-> 1]
          ELSE IF divides
          THEN [ok |-> FALSE, rate |-> None, error |-> "ZeroDivisionError",
                available |-> {}, requests |-> 1]
          ELSE IF rate = None
          THEN [ok |-> FALSE, rate |-> None, error |-> "RateUnavailable",
                available |-> DOMAIN data.rates, requests |-> 1]
          ELSE [ok |-> TRUE, rate |-> rate, error |-> "none",
                available |-> {}, requests |-> 1]

ExchangeRateClient_get_rate(from_currency, to_currency, resp) ==
    IF from_currency = to_currency
    THEN [ok |-> TRUE, rate |-> One, error |-> "none", available |-> {},
          requests |-> 0]
    ELSE
      LET data == get_exchange_rates("EUR",
                                     RateTargets(from_currency, to_currency), resp)
          eur_to_from == RateOf(data.rates, from_currency)
          eur_to_to   == RateOf(data.rates, to_currency)
          rate ==
              IF from_currency = "EUR" THEN eur_to_to
              ELSE IF to_currency = "EUR"
                   THEN IF Truthy(eur_to_from) THEN RatDiv(One, eur_to_from)
                        ELSE None
              ELSE IF Truthy(eur_to_from) /\ Truthy(eur_to_to)
                   THEN RatDiv(eur_to_to, eur_to_from)
                   ELSE None
      IN  IF ~data.ok
          THEN [ok |-> FALSE, rate |-> None, error |-> data.error,
                available |-> {}, requests |-> 1]
          ELSE IF rate = None
          THEN [ok |-> FALSE, rate |-> None, error |-> "RateUnavailable",
                available |-> DOMAIN data.rates, requests |-> 1]
          ELSE [ok |-> TRUE, rate |-> rate, error |-> "none",
                available |-> {}, requests |-> 1]

\* the symbols ExchangeRateClient.get_multiple_rates asks the provider for
currencies_to_fetch(from_currency, to_currencies) ==
    ({from_currency} \cup to_currencies) \ {"EUR"}

\* the rate get_multiple_rates derives for one target; None when it leaves
\* the target out of its result
multiple_rate(from_currency, to_curr, rates) ==
    LET eur_to_from == RateOf(rates, from_currency)
        eur_to_to   == RateOf(rates, to_curr)
    IN  IF from_currency = to_curr THEN One
        ELSE IF from_currency = "EUR"
             THEN IF Truthy(eur_to_to) THEN eur_to_to ELSE None
        ELSE IF to_curr = "EUR"
             THEN IF Truthy(eur_to_from) THEN RatDiv(One, eur_to_from) ELSE None
        ELSE IF Truthy(eur_to_from) /\ Truthy(eur_to_to)
             THEN RatDiv(eur_to_to, eur_to_from)
             ELSE None

\* faulty variant: one provider request for each target
ExchangeRateClient_get_multiple_rates_per_target(from_currency, to_currencies, resp) ==
    LET asked  == currencies_to_fetch(from_currency, to_currencies)
        data   == get_exchange_rates("EUR", asked, resp)
        found  == {t \in to_currencies :
                      multiple_rate(from_currency, t, data.rates) # None}
        result == [t \in found |-> multiple_rate(from_currency, t, data.rates)]
    IN  IF ~data.ok
        THEN [ok |-> FALSE, error |-> data.error, result |-> Empty,
              requests |-> Cardinality(to_currencies), asked |-> asked]
        ELSE IF found = {}
        THEN [ok |-> FALSE, error |-> "ValueError", result |-> Empty,
              requests |-> Cardinality(to_currencies), asked |-> asked]
        ELSE [ok |-> TRUE, error |-> "none", result |-> result,
              requests |-> Cardinality(to_currencies), asked |-> asked]

\* faulty variant: a target that cannot be derived fails the whole call
ExchangeRateClient_get_multiple_rates_all_or_nothing(from_currency, to_currencies, resp) ==
    LET asked  == currencies_to_fetch(from_currency, to_currencies)
        data   == get_exchange_rates("EUR", asked, resp)
        found  == {t \in to_currencies :
                      multiple_rate(from_currency, t, data.rates) # None}
        result == [t \in found |-> multiple_rate(from_currency, t, data.rates)]
    IN  IF ~data.ok
        THEN [ok |-> FALSE, error |-> data.error, result |-> Empty,
              requests |-> 1, asked |-> asked]
        ELSE IF found # to_currencies \/ found = {}
        THEN [ok |-> FALSE, error |-> "ValueError", result |-> Empty,
              requests |-> 1, asked |-> asked]
        ELSE [ok |-> TRUE, error |-> "none", result |-> result,
              requests |-> 1, asked |-> asked]

\* faulty variant: a failed provider request gives an empty mapping
ExchangeRateClient_get_multiple_rates_swallow(from_currency, to_currencies, resp) ==
    LET asked  == currencies_to_fetch(from_currency, to_currencies)
        data   == get_exchange_rates("EUR", asked, resp)
        found  == {t \in to_currencies :
                      multiple_rate(from_currency, t, data.rates) # None}
        result == [t \in found |-> multiple_rate(from_currency, t, data.rates)]
    IN  IF ~data.ok
        THEN [ok |-> TRUE, error |-> "none", result |-> Empty,
              requests |-> 1, asked |-> asked]
        ELSE IF found = {}
        THEN [ok |-> FALSE, error |-> "ValueError", result |-> Empty,
              requests |-> 1, asked |-> asked]
        ELSE [ok |-> TRUE, error |-> "none", result |-> result,
              requests |-> 1, asked |-> asked]

\* to_currencies is the set of the list's members: a target given twice is
\* derived twice to the same value
ExchangeRateClient_get_multiple_rates(from_currency, to_currencies, resp) ==
    LET asked  == currencies_to_fetch(from_currency, to_currencies)
        data   == get_exchange_rates("EUR", asked, resp)
        found  == {t \in to_currencies :
                      multiple_rate(from_currency, t, data.rates) # None}
        result == [t \in found |-> multiple_rate(from_currency, t, data.rates)]
    IN  IF ~data.ok
        THEN [ok |-> FALSE, error |-> data.error, result |-> Empty,
              requests |-> 1, asked |-> asked]
        ELSE IF found = {}
        THEN [ok |-> FALSE, error |-> "ValueError", result |-> Empty,
              requests |-> 1, asked |-> asked]
        ELSE [ok |-> TRUE, error |-> "none", result |-> result,
              requests |-> 1, asked |-> asked]

----------------------------------------------------------------------------
(* The fallback table *)

fallback_rates ==
    (<<"USD", "EUR">> :> Rat(92, 100)) @@
    (<<"USD", "GBP">> :> Rat(79, 100)) @@
    (<<"USD", "JPY">> :> Rat(14950, 100)) @@
    (<<"USD", "INR">> :> Rat(8312, 100)) @@
    (<<"USD", "AED">> :> Rat(367, 100)) @@
    (<<"USD", "UZS">> :> Rat(12755, 1)) @@
    (<<"EUR", "USD">> :> Rat(109, 100)) @@
    (<<"EUR", "GBP">> :> Rat(86, 100)) @@
    (<<"EUR", "JPY">> :> Rat(16250, 100)) @@
    (<<"GBP", "USD">> :> Rat(127, 100)) @@
    (<<"GBP", "EUR">> :> Rat(116, 100)) @@
    (<<"JPY", "USD">> :> Rat(67, 10000)) @@
    (<<"JPY", "EUR">> :> Rat(62, 10000)) @@
    (<<"INR", "USD">> :> Rat(12, 1000)) @@
    (<<"INR", "EUR">> :> Rat(11, 1000)) @@
    (<<"AED", "USD">> :> Rat(27, 100)) @@
    (<<"AED", "EUR">> :> Rat(25, 100)) @@
    (<<"UZS", "USD">> :> Rat(78, 1000000)) @@
    (<<"UZS", "EUR">> :> Rat(72, 1000000))

get_fallback_rate(from_currency, to_currency) ==
    IF from_currency = to_currency THEN One
    ELSE IF <<from_currency, to_currency>> \in DOMAIN fallback_rates
         THEN fallback_rates[<<from_currency, to_currency>>]
         ELSE None

----------------------------------------------------------------------------
(* CurrencyConversionService: helpers *)

\* faulty variant: the key names the from code only
cache_key_from_only(from_currency, to_currency) ==
    CACHE_PREFIX \o ":" \o from_currency

cache_key(from_currency, to_currency) ==
    CACHE_PREFIX \o ":" \o from_currency \o ":" \o to_currency

\* the configured TTL: ttl_seconds or settings.CACHE_TTL_SECONDS
ttl == CACHE_TTL_SECONDS

get_cached_rate(key, up) ==
    LET r == RedisCache_get(key, up)
    IN  IF r.raised THEN None ELSE r.value

\* faulty variant: the fetched rate is never written
cache_rate_dropped(key, rate, up) == store

\* the store after _cache_rate
cache_rate(key, rate, up) == RedisCache_set(key, rate, ttl, up).store

was_cached(key, rate, up) == get_cached_rate(key, up) = rate

----------------------------------------------------------------------------
(* Requests the model draws its inputs from *)

Amounts == {-1, 0, 3}

Pairs ==
    { <<"EUR", "EUR">>,     \* identity
      <<"EUR", "GBP">>,     \* from the provider's base, in the fallback table
      <<"INR", "EUR">>,     \* to the provider's base, in the fallback table
      <<"GBP", "JPY">>,     \* cross rate, not in the fallback table
      <<"JPY", "GBP">> }    \* the reverse cross rate, not in the fallback table

Request(a, p) == [amount |-> a, from_currency |-> p[1], to_currency |-> p[2]]

Requests == {Request(a, p) : a \in Amounts, p \in Pairs}

BatchRequests ==
    { Request(0, <<"GBP", "JPY">>),
      Request(3, <<"GBP", "JPY">>),
      Request(3, <<"INR", "EUR">>),
      Request(3, <<"EUR", "EUR">>) }

KeyOf(req) == cache_key(req.from_currency, req.to_currency)

----------------------------------------------------------------------------
(* One convert coroutine *)

NewTask(req) ==
    [req |-> req, pc |-> "start", status |-> "pending", error |-> "none",
     named |-> {}, rate |-> None, src |-> "none", converted |-> None,
     cached |-> FALSE, gets |-> 0, sets |-> 0, fetches |-> 0,
     quote |-> None, setAt |-> -1, cacheFailed |-> FALSE, hadEntry |-> FALSE]

Fail(t, kind, codes) ==
    [t EXCEPT !.pc = "done", !.status = "error", !.error = kind, !.named = codes]

\* faulty variant: the cache is read before the same-currency check
convert_begin_cache_first(t, up) ==
    LET req == t.req
        cached_rate == get_cached_rate(KeyOf(req), up)
        read == [t EXCEPT !.gets = @ + 1, !.cacheFailed = @ \/ (client /\ ~up),
                          !.hadEntry = KeyOf(req) \in DOMAIN store]
    IN  IF req.amount <= 0 THEN Fail(t, "InvalidAmount", {})
        ELSE IF cached_rate # None
        THEN [read EXCEPT !.pc = "check", !.rate = cached_rate, !.src = "cache"]
        ELSE IF req.from_currency = req.to_currency
        THEN [read EXCEPT !.pc = "done", !.status = "ok", !.rate = One,
                          !.src = "identity",
                          !.converted = Rat(req.amount, 1), !.cached = FALSE]
        ELSE [read EXCEPT !.pc = "fetch"]

\* faulty variant: the same-currency check comes before the amount check
convert_begin_identity_first(t, up) ==
    LET req == t.req
        cached_rate == get_cached_rate(KeyOf(req), up)
        read == [t EXCEPT !.gets = @ + 1, !.cacheFailed = @ \/ (client /\ ~up),
                          !.hadEntry = KeyOf(req) \in DOMAIN store]
    IN  IF req.from_currency = req.to_currency
        THEN [t EXCEPT !.pc = "done", !.status = "ok", !.rate = One,
                       !.src = "identity",
                       !.converted = Rat(req.amount, 1), !.cached = FALSE]
        ELSE IF req.amount <= 0 THEN Fail(t, "InvalidAmount", {})
        ELSE IF cached_rate # None
        THEN [read EXCEPT !.pc = "check", !.rate = cached_rate, !.src = "cache"]
        ELSE [read EXCEPT !.pc = "fetch"]

\* faulty variant: a cache hit is not used, the rate is fetched again
convert_begin_refetch(t, up) ==
    LET req == t.req
        read == [t EXCEPT !.gets = @ + 1, !.cacheFailed = @ \/ (client /\ ~up),
                          !.hadEntry = KeyOf(req) \in DOMAIN store]
    IN  IF req.amount <= 0 THEN Fail(t, "InvalidAmount", {})
        ELSE IF req.from_currency = req.to_currency
        THEN [t EXCEPT !.pc = "done", !.status = "ok", !.rate = One,
                       !.src = "identity",
                       !.converted = Rat(req.amount, 1), !.cached = FALSE]
        ELSE [read EXCEPT !.pc = "fetch"]

\* convert, up to the answer of the first cache read
convert_begin(t, up) ==
    LET req == t.req
        cached_rate == get_cached_rate(KeyOf(req), up)
        read == [t EXCEPT !.gets = @ + 1, !.cacheFailed = @ \/ (client /\ ~up),
                          !.hadEntry = KeyOf(req) \in DOMAIN store]
    IN  IF req.amount <= 0 THEN Fail(t, "InvalidAmount", {})
        ELSE IF req.from_currency = req.to_currency
        THEN [t EXCEPT !.pc = "done", !.status = "ok", !.rate = One,
                       !.src = "identity",
                       !.converted = Rat(req.amount, 1), !.cached = FALSE]
        ELSE IF cached_rate # None
        THEN [read EXCEPT !.pc = "check", !.rate = cached_rate, !.src = "cache"]
        ELSE [read EXCEPT !.pc = "fetch"]

\* faulty variant: a provider failure is raised without a look at the fallback table
get_rate_miss_no_fallback(t, resp, up) ==
    LET req == t.req
        got == ExchangeRateClient_get_rate(req.from_currency, req.to_currency, resp)
        called == [t EXCEPT !.fetches = @ + got.requests, !.quote = got.rate]
    IN  IF got.ok
        THEN [called EXCEPT !.pc = "check", !.rate = got.rate, !.src = "provider",
                            !.sets = @ + 1, !.setAt = now,
                            !.cacheFailed = @ \/ (client /\ ~up)]
        ELSE Fail(called, "RateUnresolved", {req.from_currency, req.to_currency})

\* faulty variant: a failed provider call is tried once more before the fallback
get_rate_miss_retry(t, resp, up) ==
    LET req == t.req
        got == ExchangeRateClient_get_rate(req.from_currency, req.to_currency, resp)
        fallback == get_fallback_rate(req.from_currency, req.to_currency)
        called == [t EXCEPT !.fetches = @ + got.requests, !.quote = got.rate]
        again == [called EXCEPT !.fetches = @ + got.requests]
    IN  IF got.ok
        THEN [called EXCEPT !.pc = "check", !.rate = got.rate, !.src = "provider",
                            !.sets = @ + 1, !.setAt = now,
                            !.cacheFailed = @ \/ (client /\ ~up)]
        ELSE IF fallback # None
        THEN [again EXCEPT !.pc = "check", !.rate = fallback, !.src = "fallback"]
        ELSE Fail(again, "RateUnresolved", {req.from_currency, req.to_currency})

\* faulty variant: without a fallback entry the provider's own error is raised
get_rate_miss_reraise(t, resp, up) ==
    LET req == t.req
        got == ExchangeRateClient_get_rate(req.from_currency, req.to_currency, resp)
        fallback == get_fallback_rate(req.from_currency, req.to_currency)
        called == [t EXCEPT !.fetches = @ + got.requests, !.quote = got.rate]
    IN  IF got.ok
        THEN [called EXCEPT !.pc = "check", !.rate = got.rate, !.src = "provider",
                            !.sets = @ + 1, !.setAt = now,
                            !.cacheFailed = @ \/ (client /\ ~up)]
        ELSE IF fallback # None
        THEN [called EXCEPT !.pc = "check", !.rate = fallback, !.src = "fallback"]
        ELSE Fail(called, got.error, got.available)

\* faulty variant: after the miss the cache is read once more, and an entry
\* another conversion wrote meanwhile is taken without a provider call
get_rate_miss_recheck(t, resp, up) ==
    LET req == t.req
        again == get_cached_rate(KeyOf(req), up)
        got == ExchangeRateClient_get_rate(req.from_currency, req.to_currency, resp)
        fallback == get_fallback_rate(req.from_currency, req.to_currency)
        called == [t EXCEPT !.fetches = @ + got.requests, !.quote = got.rate]
    IN  IF again # None
        THEN [t EXCEPT !.pc = "check", !.rate = again, !.src = "cache",
                       !.gets = @ + 1]
        ELSE IF got.ok
        THEN [called EXCEPT !.pc = "check", !.rate = got.rate, !.src = "provider",
                            !.sets = @ + 1, !.setAt = now,
                            !.cacheFailed = @ \/ (client /\ ~up)]
        ELSE IF fallback # None
        THEN [called EXCEPT !.pc = "check", !.rate = fallback, !.src = "fallback"]
        ELSE Fail(called, "RateUnresolved", {req.from_currency, req.to_currency})

\* _get_rate after a cache miss: the provider call, then the cache write or
\* the fallback table
get_rate_miss(t, resp, up) ==
    LET req == t.req
        got == ExchangeRateClient_get_rate(req.from_currency, req.to_currency, resp)
        fallback == get_fallback_rate(req.from_currency, req.to_currency)
        called == [t EXCEPT !.fetches = @ + got.requests, !.quote = got.rate]
    IN  IF got.ok
        THEN [called EXCEPT !.pc = "check", !.rate = got.rate, !.src = "provider",
                            !.sets = @ + 1, !.setAt = now,
                            !.cacheFailed = @ \/ (client /\ ~up)]
        ELSE IF fallback # None
        THEN [called EXCEPT !.pc = "check", !.rate = fallback, !.src = "fallback"]
        ELSE Fail(called, "RateUnresolved", {req.from_currency, req.to_currency})

\* faulty variant: the fallback rate is cached like a provider rate
store_after_miss_any(t, up) ==
    IF t.src \in {"provider", "fallback"}
    THEN cache_rate(KeyOf(t.req), t.rate, up) ELSE store

\* faulty variant: the rate is written under the key of the reverse pair
store_after_miss_reverse_key(t, up) ==
    IF t.src = "provider"
    THEN cache_rate(cache_key(t.req.to_currency, t.req.from_currency), t.rate, up)
    ELSE store

\* the store after _get_rate's miss path left the task as t
store_after_miss(t, up) ==
    IF t.src = "provider" THEN cache_rate(KeyOf(t.req), t.rate, up) ELSE store

\* faulty variant: the product is cut to two decimals, not rounded
converted_amount_truncated(amount, rate) ==
    LET q == rate[1] \div rate[2]
        r == rate[1] % rate[2]
    IN  Rat(100 * amount * q + (100 * amount * r) \div rate[2], 100)

\* round(request.amount * rate, 2) for a whole amount; the whole part of the
\* rate is multiplied apart, which keeps the products small and rounds to
\* the same hundredth
converted_amount(amount, rate) ==
    LET q == rate[1] \div rate[2]
        r == rate[1] % rate[2]
        part == Round2(Rat(amount * r, rate[2]))
    IN  Rat(amount * q * part[2] + part[1], part[2])

\* the rest of convert: the arithmetic and the _was_cached read
convert_finish(t, up) ==
    [t EXCEPT !.pc = "done", !.status = "ok",
              !.converted = converted_amount(t.req.amount, t.rate),
              !.cached = was_cached(KeyOf(t.req), t.rate, up),
              !.gets = @ + 1,
              !.cacheFailed = @ \/ (client /\ ~up)]

ConversionResponse(t) ==
    [amount |-> t.req.amount, from_currency |-> t.req.from_currency,
     to_currency |-> t.req.to_currency, converted_amount |-> t.converted,
     rate |-> t.rate, cached |-> t.cached]

----------------------------------------------------------------------------
(* State *)

NoOut == [status |-> "none", error |-> "none", results |-> <<>>, at |-> 0,
          until |-> 0, stats |-> "none"]

NoPrev == [op |-> "none", from_currency |-> "", to_currency |-> "",
           status |-> "none", rate |-> None, src |-> "none",
           cacheFailed |-> FALSE, hadEntry |-> FALSE, at |-> 0, until |-> 0]

\* what the next call remembers of the call that just returned
Summary ==
    IF op = "convert"
    THEN [op |-> op, from_currency |-> tasks[1].req.from_currency,
          to_currency |-> tasks[1].req.to_currency, status |-> out.status,
          rate |-> tasks[1].rate, src |-> tasks[1].src,
          cacheFailed |-> tasks[1].cacheFailed,
          hadEntry |-> tasks[1].hadEntry, at |-> out.at,
          until |-> out.until]
    ELSE [NoPrev EXCEPT !.op = op, !.status = out.status, !.at = out.at]

NoRet == [op |-> "none", raised |-> FALSE, unreachable |-> FALSE,
          changed |-> FALSE, value |-> None]

Init ==
    /\ client \in BOOLEAN
    /\ store = Empty
    /\ reachable \in BOOLEAN
    /\ now = 0
    /\ phase = "idle"
    /\ op = "none"
    /\ tasks = <<>>
    /\ out = NoOut
    /\ prev = NoPrev
    /\ calls = 0
    /\ ret = NoRet
    /\ redis_cache = 0
    /\ connection = 0
    /\ handles = <<>>
    /\ initialized = FALSE

CanCall == phase # "running" /\ calls < MaxCalls

Called(kind, reqs) ==
    /\ phase' = "running"
    /\ op' = kind
    /\ tasks' = [i \in 1..Len(reqs) |-> NewTask(reqs[i])]
    /\ out' = NoOut
    /\ prev' = IF phase = "returned" THEN Summary ELSE prev
    /\ calls' = calls + 1
    /\ UNCHANGED <<lifecycle, client, store, reachable, now, ret>>

\* a caller awaits service.convert(request)
CallConvert ==
    /\ CanCall
    /\ \E req \in Requests : Called("convert", <<req>>)

\* a caller awaits service.convert_batch(requests): one task per request
CallBatch ==
    /\ phase = "idle"
    /\ \E n \in 0..MaxBatch : \E reqs \in [1..n -> BatchRequests] :
           Called("convert_batch", reqs)

Running(i) == phase = "running" /\ i \in 1..Len(tasks)

Begin(i) ==
    /\ Running(i) /\ tasks[i].pc = "start"
    /\ tasks' = [tasks EXCEPT ![i] = convert_begin(tasks[i], reachable)]
    /\ UNCHANGED <<lifecycle, client, store, reachable, now, phase, op, out, prev, calls, ret>>

Fetch(i) ==
    /\ Running(i) /\ tasks[i].pc = "fetch"
    /\ \E resp \in Responses(RateTargets(tasks[i].req.from_currency,
                                         tasks[i].req.to_currency)) :
         LET t == get_rate_miss(tasks[i], resp, reachable)
         IN  /\ tasks' = [tasks EXCEPT ![i] = t]
             /\ store' = store_after_miss(t, reachable)
    /\ UNCHANGED <<lifecycle, client, reachable, now, phase, op, out, prev, calls, ret>>

Finish(i) ==
    /\ Running(i) /\ tasks[i].pc = "check"
    /\ tasks' = [tasks EXCEPT ![i] = convert_finish(tasks[i], reachable)]
    /\ UNCHANGED <<lifecycle, client, store, reachable, now, phase, op, out, prev, calls, ret>>

AllDone == \A i \in 1..Len(tasks) : tasks[i].pc = "done"

EntryExp(key) == IF key \in DOMAIN store THEN store[key].exp ELSE 0

\* until when the rate the task resolved stays the cached rate of its pair
ValidUntil(t) ==
    IF t.src = "provider" THEN t.setAt + ttl
    ELSE IF t.src = "cache" THEN EntryExp(KeyOf(t.req))
    ELSE now + ttl

\* convert returns its response or raises its error
ReturnConvert ==
    /\ phase = "running" /\ op = "convert" /\ AllDone
    /\ phase' = "returned"
    /\ out' = [NoOut EXCEPT
                 !.status = tasks[1].status,
                 !.error = tasks[1].error,
                 !.results = IF tasks[1].status = "ok"
                             THEN <<ConversionResponse(tasks[1])>> ELSE <<>>,
                 !.at = now,
                 !.until = ValidUntil(tasks[1])]
    /\ UNCHANGED <<lifecycle, client, store, reachable, now, op, tasks, prev, calls, ret>>

Succeeded(t) == t.status = "ok"

Failures == {i \in 1..Len(tasks) : tasks[i].status = "error"}

\* faulty variant: gather without return_exceptions, the first failure ends the batch
convert_batch_collect_abort ==
    LET ok == SelectSeq(tasks, Succeeded)
        successful == [i \in 1..Len(ok) |-> ConversionResponse(ok[i])]
        first == CHOOSE i \in Failures : \A j \in Failures : i <= j
    IN  IF Failures # {}
        THEN [NoOut EXCEPT !.status = "error", !.error = tasks[first].error,
                           !.at = now]
        ELSE IF successful = <<>>
        THEN [NoOut EXCEPT !.status = "error", !.error = "BatchExhausted",
                           !.at = now]
        ELSE [NoOut EXCEPT !.status = "ok", !.results = successful, !.at = now]

\* faulty variant: a batch without a success returns an empty list
convert_batch_collect_empty ==
    LET ok == SelectSeq(tasks, Succeeded)
        successful == [i \in 1..Len(ok) |-> ConversionResponse(ok[i])]
    IN  [NoOut EXCEPT !.status = "ok", !.results = successful, !.at = now]

\* faulty variant: an empty list of requests is answered with an empty list
convert_batch_collect_nothing_asked ==
    LET ok == SelectSeq(tasks, Succeeded)
        successful == [i \in 1..Len(ok) |-> ConversionResponse(ok[i])]
    IN  IF tasks # <<>> /\ successful = <<>>
        THEN [NoOut EXCEPT !.status = "error", !.error = "BatchExhausted",
                           !.at = now]
        ELSE [NoOut EXCEPT !.status = "ok", !.results = successful, !.at = now]

\* faulty variant: each success is put at the front of the list
convert_batch_collect_prepend ==
    LET ok == SelectSeq(tasks, Succeeded)
        successful == [i \in 1..Len(ok) |->
                          ConversionResponse(ok[Len(ok) + 1 - i])]
    IN  IF successful = <<>>
        THEN [NoOut EXCEPT !.status = "error", !.error = "BatchExhausted",
                           !.at = now]
        ELSE [NoOut EXCEPT !.status = "ok", !.results = successful, !.at = now]

\* convert_batch after asyncio.gather: the successes, in request order
convert_batch_collect ==
    LET ok == SelectSeq(tasks, Succeeded)
        successful == [i \in 1..Len(ok) |-> ConversionResponse(ok[i])]
    IN  IF successful = <<>>
        THEN [NoOut EXCEPT !.status = "error", !.error = "BatchExhausted",
                           !.at = now]
        ELSE [NoOut EXCEPT !.status = "ok", !.results = successful, !.at = now]

ReturnBatch ==
    /\ phase = "running" /\ op = "convert_batch" /\ AllDone
    /\ phase' = "returned"
    /\ out' = convert_batch_collect
    /\ UNCHANGED <<lifecycle, client, store, reachable, now, op, tasks, prev, calls, ret>>

\* the service's get_cache_stats
GetCacheStats ==
    /\ CanCall
    /\ LET r == RedisCache_get_stats(reachable)
         IN  out' = [NoOut EXCEPT
                       !.status = IF r.raised THEN "error" ELSE "ok",
                       !.stats = r.value.status, !.at = now]
    /\ phase' = "returned"
    /\ op' = "get_cache_stats"
    /\ tasks' = <<>>
    /\ prev' = IF phase = "returned" THEN Summary ELSE prev
    /\ calls' = calls + 1
    /\ UNCHANGED <<lifecycle, client, store, reachable, now, ret>>

TickStep == CACHE_TTL_SECONDS \div 2

\* time passes; Redis drops the entries whose TTL has run out
Tick ==
    /\ now < MaxTicks * TickStep
    /\ now' = now + TickStep
    /\ store' = Drop(store, {k \in DOMAIN store : store[k].exp <= now'})
    /\ UNCHANGED <<lifecycle, client, reachable, phase, op, tasks, out, prev, calls, ret>>

\* the Redis server or the network to it goes down, or comes back
RedisFlips ==
    /\ reachable' = ~reachable
    /\ UNCHANGED <<lifecycle, client, store, now, phase, op, tasks, out, prev, calls, ret>>

Next ==
    \/ CallConvert
    \/ \E i \in 1..MaxBatch : Begin(i)
    \/ \E i \in 1..MaxBatch : Fetch(i)
    \/ \E i \in 1..MaxBatch : Finish(i)
    \/ ReturnConvert
    \/ GetCacheStats
    \/ Tick
    \/ RedisFlips

Spec == Init /\ [][Next]_vars

NextBatch ==
    \/ CallBatch
    \/ \E i \in 1..MaxBatch : Begin(i)
    \/ \E i \in 1..MaxBatch : Fetch(i)
    \/ \E i \in 1..MaxBatch : Finish(i)
    \/ ReturnBatch

SpecBatch == Init /\ [][NextBatch]_vars

----------------------------------------------------------------------------
(* Conversions at quoted rates, over the lifetime of a cache entry *)

QuotedRequests ==
    { Request(100, <<"USD", "UZS">>),
      Request(100, <<"UZS", "USD">>) }

\* EUR-based payloads in ten-thousandths: USD 1.0869 and UZS 13870.5, and a
\* later quote of USD 1.1 and UZS 13200
QuotedRates ==
    { ("USD" :> 10869) @@ ("UZS" :> 138705000),
      ("USD" :> 11000) @@ ("UZS" :> 132000000) }

QuotedResponses ==
    {[kind |-> k, rates |-> Empty] : k \in FailureKinds}
        \cup {[kind |-> "ok", rates |-> r, unit |-> 10000] : r \in QuotedRates}

CallQuoted ==
    /\ CanCall
    /\ \E req \in QuotedRequests : Called("convert", <<req>>)

FetchQuoted(i) ==
    /\ Running(i) /\ tasks[i].pc = "fetch"
    /\ \E resp \in QuotedResponses :
         LET t == get_rate_miss(tasks[i], resp, reachable)
         IN  /\ tasks' = [tasks EXCEPT ![i] = t]
             /\ store' = store_after_miss(t, reachable)
    /\ UNCHANGED <<lifecycle, client, reachable, now, phase, op, out, prev, calls, ret>>

NextRates ==
    \/ CallQuoted
    \/ \E i \in 1..MaxBatch : Begin(i)
    \/ \E i \in 1..MaxBatch : FetchQuoted(i)
    \/ \E i \in 1..MaxBatch : Finish(i)
    \/ ReturnConvert
    \/ Tick
    \/ RedisFlips

SpecRates == Init /\ [][NextRates]_vars

----------------------------------------------------------------------------
(* Direct calls on the shared RedisCache *)

CacheKeys == {cache_key("EUR", "GBP"), cache_key("GBP", "JPY")}

CacheValues == {One, Rat(1, 2)}

\* the call returned r (a value) and left the store as st
CacheCalled(name, r, st) ==
    /\ store' = st
    /\ ret' = [op |-> name, raised |-> r.raised,
               unreachable |-> ~client \/ ~reachable,
               changed |-> st # store,
               value |-> IF "value" \in DOMAIN r THEN r.value ELSE None]
    /\ UNCHANGED <<lifecycle, client, reachable, now, phase, op, tasks, out, prev, calls>>

CacheGet ==
    \E key \in CacheKeys :
        CacheCalled("get", RedisCache_get(key, reachable), store)

CacheSet ==
    \E key \in CacheKeys, value \in CacheValues :
        LET r == RedisCache_set(key, value, ttl, reachable)
        IN  CacheCalled("set", r, r.store)

CacheDelete ==
    \E key \in CacheKeys :
        LET r == RedisCache_delete(key, reachable)
        IN  CacheCalled("delete", r, r.store)

CacheClear ==
    LET r == RedisCache_clear(reachable)
    IN  CacheCalled("clear", r, r.store)

CacheExists ==
    \E key \in CacheKeys :
        CacheCalled("exists", RedisCache_exists(key, reachable), store)

CacheMGet ==
    \E keys \in SUBSET CacheKeys :
        CacheCalled("mget", RedisCache_mget(keys, reachable), store)

CacheMSet ==
    \E keys \in SUBSET CacheKeys : \E data \in [keys -> CacheValues] :
        LET r == RedisCache_mset(data, ttl, reachable)
        IN  CacheCalled("mset", r, r.store)

NextCache ==
    \/ CacheGet
    \/ CacheSet
    \/ CacheDelete
    \/ CacheClear
    \/ CacheExists
    \/ CacheMGet
    \/ CacheMSet
    \/ RedisFlips
    \/ Tick

SpecCache == Init /\ [][NextCache]_vars

----------------------------------------------------------------------------
(* The service's other operations: get_rate_direct, clear_cache,           *)
(* health_check                                                            *)

DirectPairs ==
    { <<"EUR", "GBP">>,     \* in the fallback table
      <<"INR", "EUR">>,     \* in the fallback table
      <<"GBP", "JPY">>,     \* not in the fallback table
      <<"USD", "USD">> }    \* identity

DirectRequest(p, use_cache) ==
    [from_currency |-> p[1], to_currency |-> p[2], use_cache |-> use_cache]

\* faulty variant: the cache is read whatever use_cache says
get_rate_direct_begin_read(t, up) ==
    LET cached_rate == get_cached_rate(KeyOf(t.req), up)
        read == [t EXCEPT !.gets = @ + 1, !.cacheFailed = @ \/ (client /\ ~up),
                          !.hadEntry = KeyOf(t.req) \in DOMAIN store]
    IN  IF cached_rate # None
        THEN [read EXCEPT !.pc = "done", !.status = "ok", !.rate = cached_rate,
                          !.src = "cache"]
        ELSE [read EXCEPT !.pc = "fetch"]

\* get_rate_direct, up to the answer of the cache read (none without use_cache)
get_rate_direct_begin(t, up) ==
    LET cached_rate == get_cached_rate(KeyOf(t.req), up)
        read == [t EXCEPT !.gets = @ + 1, !.cacheFailed = @ \/ (client /\ ~up),
                          !.hadEntry = KeyOf(t.req) \in DOMAIN store]
    IN  IF ~t.req.use_cache THEN [t EXCEPT !.pc = "fetch"]
        ELSE IF cached_rate # None
        THEN [read EXCEPT !.pc = "done", !.status = "ok", !.rate = cached_rate,
                          !.src = "cache"]
        ELSE [read EXCEPT !.pc = "fetch"]

\* get_rate_direct after the cache read: _get_rate's miss path with use_cache,
\* the provider client alone without it
get_rate_direct_fetch(t, resp, up) ==
    LET req == t.req
        got == ExchangeRateClient_get_rate(req.from_currency, req.to_currency, resp)
        called == [t EXCEPT !.fetches = @ + got.requests, !.quote = got.rate]
        missed == get_rate_miss(t, resp, up)
    IN  IF req.use_cache
        THEN IF missed.status = "error" THEN missed
             ELSE [missed EXCEPT !.pc = "done", !.status = "ok"]
        ELSE IF got.ok
        THEN [called EXCEPT !.pc = "done", !.status = "ok", !.rate = got.rate,
                            !.src = "provider"]
        ELSE Fail(called, got.error, got.available)

\* the store after get_rate_direct left the task as t
store_after_direct(t, up) ==
    IF t.req.use_cache THEN store_after_miss(t, up) ELSE store

\* a caller awaits service.get_rate_direct(from_currency, to_currency, use_cache)
CallDirect ==
    /\ CanCall
    /\ \E p \in DirectPairs, use_cache \in BOOLEAN :
           Called("get_rate_direct", <<DirectRequest(p, use_cache)>>)

DirectRunning == Running(1) /\ op = "get_rate_direct"

DirectBegin ==
    /\ DirectRunning /\ tasks[1].pc = "start"
    /\ tasks' = [tasks EXCEPT ![1] = get_rate_direct_begin(tasks[1], reachable)]
    /\ UNCHANGED <<lifecycle, client, store, reachable, now, phase, op, out, prev, calls, ret>>

DirectFetch ==
    /\ DirectRunning /\ tasks[1].pc = "fetch"
    /\ \E resp \in Responses(RateTargets(tasks[1].req.from_currency,
                                         tasks[1].req.to_currency)) :
         LET t == get_rate_direct_fetch(tasks[1], resp, reachable)
         IN  /\ tasks' = [tasks EXCEPT ![1] = t]
             /\ store' = store_after_direct(t, reachable)
    /\ UNCHANGED <<lifecycle, client, reachable, now, phase, op, out, prev, calls, ret>>

\* get_rate_direct returns the rate or raises its error
ReturnDirect ==
    /\ DirectRunning /\ AllDone
    /\ phase' = "returned"
    /\ out' = [NoOut EXCEPT
                 !.status = tasks[1].status,
                 !.error = tasks[1].error,
                 !.results = IF tasks[1].status = "ok"
                             THEN <<tasks[1].rate>> ELSE <<>>,
                 !.at = now]
    /\ UNCHANGED <<lifecycle, client, store, reachable, now, op, tasks, prev, calls, ret>>

\* a call that runs to its end in one step returned
Returned1(name) ==
    /\ phase' = "returned"
    /\ op' = name
    /\ tasks' = <<>>
    /\ prev' = IF phase = "returned" THEN Summary ELSE prev
    /\ calls' = calls + 1

\* clear_cache: what it raises, and the store it leaves
clear_cache(up) ==
    LET r == RedisCache_clear(up)
    IN  [raised |-> r.raised,
         error  |-> IF r.raised THEN "CacheError" ELSE "none",
         store  |-> r.store]

\* a caller awaits service.clear_cache()
ClearCache ==
    /\ CanCall
    /\ LET r == clear_cache(reachable)
       IN  /\ store' = r.store
           /\ out' = [NoOut EXCEPT
                        !.status = IF r.raised THEN "error" ELSE "ok",
                        !.error = r.error, !.at = now]
           /\ ret' = [op |-> "clear_cache", raised |-> r.raised,
                      unreachable |-> ~client \/ ~reachable,
                      changed |-> r.store # store,
                      value |-> [flushdb_failed |-> client /\ ~reachable,
                                 left |-> DOMAIN r.store]]
    /\ Returned1("clear_cache")
    /\ UNCHANGED <<lifecycle, client, reachable, now>>

AsyncRedisConnection_ping(up) == client /\ up

\* faulty variant: a cached USD to EUR rate answers for the provider
test_api_cached(resp) ==
    \/ get_cached_rate(cache_key("USD", "EUR"), reachable) # None
    \/ ExchangeRateClient_get_rate("USD", "EUR", resp).ok

\* _test_api: one get_rate(USD, EUR), any exception is False
test_api(resp) == ExchangeRateClient_get_rate("USD", "EUR", resp).ok

\* faulty variant: one probe is enough to be healthy
health_check_either(resp, up) ==
    LET is_connected == AsyncRedisConnection_ping(up)
        api_available == test_api(resp)
    IN  [raised |-> FALSE,
         status |-> IF is_connected \/ api_available THEN "healthy" ELSE "degraded",
         cache  |-> IF is_connected THEN "connected" ELSE "disconnected",
         api    |-> IF api_available THEN "available" ELSE "unavailable"]

health_check(resp, up) ==
    LET is_connected == AsyncRedisConnection_ping(up)
        api_available == test_api(resp)
    IN  [raised |-> FALSE,
         status |-> IF is_connected /\ api_available THEN "healthy" ELSE "degraded",
         cache  |-> IF is_connected THEN "connected" ELSE "disconnected",
         api    |-> IF api_available THEN "available" ELSE "unavailable"]

\* a caller awaits service.health_check()
HealthCheck ==
    /\ CanCall
    /\ \E resp \in Responses(RateTargets("USD", "EUR")) :
         LET h == health_check(resp, reachable)
         IN  /\ out' = [NoOut EXCEPT
                          !.status = IF h.raised THEN "error" ELSE "ok",
                          !.stats = h.status, !.at = now]
             /\ ret' = [op |-> "health_check", raised |-> h.raised,
                        unreachable |-> ~client \/ ~reachable,
                        changed |-> FALSE,
                        value |-> [health |-> h, probe |-> resp,
                                   requests |-> ExchangeRateClient_get_rate(
                                                    "USD", "EUR", resp).requests,
                                   before |-> store]]
    /\ Returned1("health_check")
    /\ UNCHANGED <<lifecycle, client, store, reachable, now>>

NextOps ==
    \/ CallDirect
    \/ DirectBegin
    \/ DirectFetch
    \/ ReturnDirect
    \/ ClearCache
    \/ HealthCheck
    \/ Tick
    \/ RedisFlips

SpecOps == Init /\ [][NextOps]_vars

----------------------------------------------------------------------------
(* The service's calls in any order *)

ServicePairs ==
    { <<"USD", "EUR">>,     \* in the fallback table, and health_check's probe
      <<"USD", "USD">> }    \* identity

ServiceRequests == {Request(3, p) : p \in ServicePairs}

ServiceConvert ==
    /\ CanCall
    /\ \E req \in ServiceRequests : Called("convert", <<req>>)

\* a batch of two requests
ServiceBatch ==
    /\ CanCall
    /\ \E reqs \in [1..2 -> ServiceRequests] : Called("convert_batch", reqs)

ServiceDirect ==
    /\ CanCall
    /\ \E p \in ServicePairs, use_cache \in BOOLEAN :
           Called("get_rate_direct", <<DirectRequest(p, use_cache)>>)

Converting == op \in {"convert", "convert_batch"}

NextService ==
    \/ ServiceConvert
    \/ ServiceBatch
    \/ ServiceDirect
    \/ \E i \in 1..MaxBatch : Converting /\ Begin(i)
    \/ \E i \in 1..MaxBatch : Converting /\ Fetch(i)
    \/ \E i \in 1..MaxBatch : Converting /\ Finish(i)
    \/ ReturnConvert
    \/ ReturnBatch
    \/ DirectBegin
    \/ DirectFetch
    \/ ReturnDirect
    \/ ClearCache
    \/ HealthCheck
    \/ RedisFlips

SpecService == Init /\ [][NextService]_vars

----------------------------------------------------------------------------
(* Direct calls on the provider client, against a given provider answer *)

ProviderCurrencies == {"EUR", "GBP", "JPY"}

\* EUR-based rates of a snapshot; 3 and 7 have quotients no float holds exactly
SnapshotValues == {0, 3, 7}

Snapshots(targets) ==
    {[kind |-> k, rates |-> Empty] : k \in FailureKinds}
        \cup {[kind |-> "ok", rates |-> r] :
                 r \in UNION {[S -> SnapshotValues] : S \in SUBSET targets}}

\* a caller awaits client.get_rate(from_currency, to_currency); last is the
\* call before it
ClientGetRate ==
    /\ \E from_currency \in ProviderCurrencies, to_currency \in ProviderCurrencies :
         \E resp \in Snapshots(RateTargets(from_currency, to_currency)) :
           ret' = [op |-> "get_rate",
                   raised |-> ~ExchangeRateClient_get_rate(
                                   from_currency, to_currency, resp).ok,
                   unreachable |-> FALSE,
                   changed |-> FALSE,
                   value |-> [from_currency |-> from_currency,
                              to_currency |-> to_currency,
                              snapshot |-> resp,
                              result |-> ExchangeRateClient_get_rate(
                                             from_currency, to_currency, resp),
                              last |-> IF ret.op = "get_rate"
                                       THEN [ret.value EXCEPT !.last = None]
                                       ELSE None]]
    /\ UNCHANGED <<lifecycle, client, store, reachable, now, phase, op, tasks, out, prev, calls>>

\* what the provider quotes when asked for these symbols; with no symbols
\* in the request it quotes every currency it has
Quoted(asked) ==
    IF asked = {} THEN ProviderCurrencies \ {"EUR"} ELSE asked

\* a caller awaits client.get_multiple_rates(from_currency, to_currencies)
ClientGetMultipleRates ==
    /\ \E from_currency \in ProviderCurrencies,
          to_currencies \in SUBSET ProviderCurrencies :
         \E resp \in Snapshots(Quoted(currencies_to_fetch(from_currency,
                                                          to_currencies))) :
           LET r == ExchangeRateClient_get_multiple_rates(
                        from_currency, to_currencies, resp)
           IN  ret' = [op |-> "get_multiple_rates",
                       raised |-> ~r.ok,
                       unreachable |-> FALSE,
                       changed |-> FALSE,
                       value |-> [from_currency |-> from_currency,
                                  to_currencies |-> to_currencies,
                                  snapshot |-> resp,
                                  result |-> r]]
    /\ UNCHANGED <<lifecycle, client, store, reachable, now, phase, op, tasks, out, prev, calls>>

\* a caller awaits client.get_exchange_rates(EUR, target_currencies)
ClientGetExchangeRates ==
    /\ \E target_currencies \in SUBSET (ProviderCurrencies \ {"EUR"}) :
         \E resp \in Snapshots(Quoted(target_currencies)) :
           LET r == get_exchange_rates("EUR", target_currencies, resp)
           IN  ret' = [op |-> "get_exchange_rates",
                       raised |-> ~r.ok,
                       unreachable |-> FALSE,
                       changed |-> FALSE,
                       value |-> [target_currencies |-> target_currencies,
                                  snapshot |-> resp,
                                  result |-> r]]
    /\ UNCHANGED <<lifecycle, client, store, reachable, now, phase, op, tasks, out, prev, calls>>

NextProvider == ClientGetRate

SpecProvider == Init /\ [][NextProvider]_vars

\* the client's three operations; the pairs of get_rate calls that follow
\* each other are SpecProvider's
NextClient ==
    \/ ret.op # "get_rate" /\ ClientGetRate
    \/ ClientGetMultipleRates
    \/ ClientGetExchangeRates

SpecClient == Init /\ [][NextClient]_vars

----------------------------------------------------------------------------
(* The shared cache's lifecycle: init_redis, shutdown_redis, get_redis.    *)
(* A RedisCache object is its place in handles; a Redis client is the      *)
(* number of the init_redis call that created it.  A client that was       *)
(* closed still serves commands: its pool connects again on use.           *)

LifecycleKey == cache_key("EUR", "GBP")

\* AsyncRedisConnection.connect on the one connection object there is:
\* whether it succeeded and the client the connection holds afterwards
AsyncRedisConnection_connect(fresh, up) ==
    IF connection # 0 THEN [success |-> TRUE, client |-> connection]
    ELSE IF up THEN [success |-> TRUE, client |-> fresh]
    ELSE [success |-> FALSE, client |-> 0]

\* the _client of a new RedisCache after its connect
RedisCache_connect(fresh, up) ==
    LET c == AsyncRedisConnection_connect(fresh, up)
    IN  IF c.success THEN c.client ELSE 0

\* a caller awaits init_redis()
InitRedis ==
    /\ calls < MaxCalls
    /\ connection' = AsyncRedisConnection_connect(calls + 1, reachable).client
    /\ handles' = Append(handles,
                         [client |-> RedisCache_connect(calls + 1, reachable),
                          retired |-> FALSE])
    /\ redis_cache' = Len(handles) + 1
    /\ initialized' = TRUE
    /\ calls' = calls + 1
    /\ ret' = [op |-> "init_redis", raised |-> FALSE,
               unreachable |-> ~reachable, changed |-> FALSE,
               value |-> [handle |-> Len(handles) + 1]]
    /\ UNCHANGED <<client, store, reachable, now, phase, op, tasks, out, prev>>

\* RedisCache.disconnect of the shared cache; closes: the client's close()
\* returns.  When it raises, Connection.disconnect raises it again and
\* neither _client is reset.
RedisCache_disconnect(closes) ==
    LET failed == connection # 0 /\ ~closes
    IN  [raised |-> failed,
         connection |-> IF failed THEN connection ELSE 0,
         handles |-> [h \in 1..Len(handles) |->
                         [handles[h] EXCEPT
                            !.client = IF h = redis_cache /\ ~failed
                                       THEN 0 ELSE @]]]

\* a caller awaits shutdown_redis(); close() can fail only on a store that
\* does not answer
ShutdownRedis ==
    /\ \E closes \in {TRUE} \cup {up \in {FALSE} : ~reachable} :
         LET d == RedisCache_disconnect(closes)
         IN  IF redis_cache = 0
             THEN /\ handles' = [h \in 1..Len(handles) |->
                                    [handles[h] EXCEPT !.retired = TRUE]]
                  /\ UNCHANGED <<redis_cache, connection>>
             ELSE /\ connection' = d.connection
                  /\ handles' = [h \in 1..Len(handles) |->
                                    [d.handles[h] EXCEPT !.retired = TRUE]]
                  /\ redis_cache' = IF d.raised THEN redis_cache ELSE 0
    /\ initialized' = FALSE
    /\ ret' = [op |-> "shutdown_redis", raised |-> FALSE,
               unreachable |-> ~reachable, changed |-> FALSE,
               value |-> [handle |-> redis_cache]]
    /\ UNCHANGED <<client, store, reachable, now, phase, op, tasks, out, prev, calls>>

\* a caller calls get_redis()
GetRedis ==
    /\ ret' = [op |-> "get_redis", raised |-> redis_cache = 0,
               unreachable |-> ~reachable, changed |-> FALSE,
               value |-> [handle |-> redis_cache]]
    /\ UNCHANGED <<lifecycle, client, store, reachable, now, phase, op, tasks, out, prev, calls>>

\* RedisCache.get on the object h
handle_get(h, key, up) ==
    IF handles[h].client = 0 THEN None
    ELSE IF ~up THEN None
    ELSE IF key \notin DOMAIN store THEN None
    ELSE LET d == JsonLoads(store[key].data)
         IN  IF d.ok THEN d.value ELSE None

\* the store after RedisCache.set on the object h
handle_set(h, key, value, ttl_seconds, up) ==
    IF handles[h].client = 0 THEN store
    ELSE IF ~up THEN store
    ELSE Put(store, key, [data |-> JsonDumps(value), exp |-> now + ttl_seconds])

\* the store after RedisCache.delete on the object h
handle_delete(h, key, up) ==
    IF handles[h].client = 0 THEN store
    ELSE IF ~up THEN store
    ELSE Drop(store, {key})

\* a call on the RedisCache object h returned result and left the store as st
HandleCalled(name, h, result, st) ==
    /\ store' = st
    /\ ret' = [op |-> name, raised |-> FALSE, unreachable |-> ~reachable,
               changed |-> st # store,
               value |-> [handle |-> h, result |-> result]]
    /\ UNCHANGED <<lifecycle, client, reachable, now, phase, op, tasks, out, prev, calls>>

HandleGet(h) ==
    /\ h \in 1..Len(handles)
    /\ HandleCalled("get", h, handle_get(h, LifecycleKey, reachable), store)

HandleSet(h) ==
    /\ h \in 1..Len(handles)
    /\ \E value \in CacheValues :
         HandleCalled("set", h, None,
                      handle_set(h, LifecycleKey, value, ttl, reachable))

HandleDelete(h) ==
    /\ h \in 1..Len(handles)
    /\ HandleCalled("delete", h, None, handle_delete(h, LifecycleKey, reachable))

\* before init_redis no RedisCache has a client
InitLifecycle == Init /\ ~client

NextLifecycle ==
    \/ InitRedis
    \/ ShutdownRedis
    \/ GetRedis
    \/ \E h \in 1..MaxCalls : HandleGet(h)
    \/ \E h \in 1..MaxCalls : HandleSet(h)
    \/ \E h \in 1..MaxCalls : HandleDelete(h)
    \/ RedisFlips

SpecLifecycle == InitLifecycle /\ [][NextLifecycle]_vars

----------------------------------------------------------------------------
(* Properties *)

Done(i) == i \in 1..Len(tasks) /\ tasks[i].pc = "done"

ConvertReturned == phase = "returned" /\ op = "convert"

BatchReturned == phase = "returned" /\ op = "convert_batch"

Identity(req) == req.from_currency = req.to_currency

HasFallback(req) == <<req.from_currency, req.to_currency>> \in DOMAIN fallback_rates

\* the call before this one was a convert of the same pair
SamePairAsBefore ==
    /\ prev.op = "convert"
    /\ prev.from_currency = tasks[1].req.from_currency
    /\ prev.to_currency = tasks[1].req.to_currency

\* C1: a convert of a positive amount from a currency to itself returns the
\* amount unchanged, rate 1.0 and cached false, and calls neither the cache
\* nor the provider.
C1_IdentityShortCircuit ==
    \A i \in 1..Len(tasks) :
        (Done(i) /\ tasks[i].req.amount > 0 /\ Identity(tasks[i].req)) =>
            /\ tasks[i].status = "ok"
            /\ tasks[i].converted = Rat(tasks[i].req.amount, 1)
            /\ tasks[i].rate = One
            /\ tasks[i].cached = FALSE
            /\ tasks[i].gets = 0 /\ tasks[i].sets = 0 /\ tasks[i].fetches = 0

C1_Witness ==
    /\ ConvertReturned /\ client /\ reachable
    /\ tasks[1].req.amount > 0 /\ Identity(tasks[1].req)
    /\ out.status = "ok" /\ out.results[1].converted_amount = Rat(3, 1)

\* C2: after a cache miss and a successful provider fetch the rate is in the
\* cache under the pair's key with the configured TTL, and the response says
\* cached false.
C2_FetchedIsNotCached ==
    (ConvertReturned /\ tasks[1].src = "provider") =>
        /\ (client /\ ~tasks[1].cacheFailed /\ now < tasks[1].setAt + ttl) =>
               /\ KeyOf(tasks[1].req) \in DOMAIN store
               /\ store[KeyOf(tasks[1].req)] =
                      [data |-> JsonDumps(tasks[1].rate),
                       exp  |-> tasks[1].setAt + ttl]
        /\ out.results[1].cached = FALSE

\* the case of C3: a second convert of a pair returns while the rate the first
\* one resolved would still be in a reachable, connected cache
C3_Window ==
    /\ ConvertReturned /\ SamePairAsBefore
    /\ ~Identity(tasks[1].req) /\ tasks[1].req.amount > 0
    /\ prev.status = "ok"
    /\ client /\ ~prev.cacheFailed /\ ~tasks[1].cacheFailed
    /\ out.at < prev.until

C3_SameRateFromCache ==
    /\ out.status = "ok"
    /\ out.results[1].rate = prev.rate
    /\ out.results[1].cached = TRUE

\* C3 as claimed: two consecutive converts of a pair within the TTL window
\* return the same rate and the second says cached true.
C3_Idempotent == C3_Window => C3_SameRateFromCache

\* C3 amended: the same, when the first convert took its rate from the cache
\* or from the provider (not from the fallback table).
C3_IdempotentUnlessFallback ==
    (C3_Window /\ prev.src \in {"cache", "provider"}) => C3_SameRateFromCache

C3_Witness ==
    /\ C3_Window /\ prev.src = "provider"
    /\ tasks[1].src = "cache" /\ out.results[1].cached = TRUE
    /\ out.results[1].rate = prev.rate
    /\ out.at > prev.at

\* C4: a miss, a provider failure and a fallback entry give the fallback rate
\* with cached false and no cache entry; the next convert of the pair calls
\* the provider again.
C4_FallbackNotCached ==
    /\ (ConvertReturned /\ tasks[1].src = "fallback" /\ ~tasks[1].hadEntry) =>
           /\ out.status = "ok"
           /\ out.results[1].rate =
                  fallback_rates[<<tasks[1].req.from_currency,
                                   tasks[1].req.to_currency>>]
           /\ out.results[1].cached = FALSE
           /\ tasks[1].sets = 0
           /\ KeyOf(tasks[1].req) \notin DOMAIN store
    /\ (ConvertReturned /\ SamePairAsBefore /\ prev.src = "fallback"
            /\ ~prev.hadEntry /\ tasks[1].req.amount > 0) =>
           (tasks[1].fetches = 1 /\ tasks[1].src # "cache")

C4_Witness ==
    /\ ConvertReturned /\ SamePairAsBefore /\ prev.src = "fallback"
    /\ client /\ ~prev.cacheFailed /\ ~prev.hadEntry /\ ~tasks[1].cacheFailed
    /\ tasks[1].src = "provider" /\ tasks[1].fetches = 1

\* the provider was called and failed
ProviderFailed(t) == t.fetches = 1 /\ t.quote = None

\* C5: a non-identity convert of a positive amount fails exactly when the
\* cache missed, the provider failed and the fallback table has no entry for
\* the ordered pair, and then with RateUnresolved naming both currencies.
C5_UnresolvedExactly ==
    (ConvertReturned /\ tasks[1].req.amount > 0 /\ ~Identity(tasks[1].req)) =>
        /\ out.status = "error" <=>
               (ProviderFailed(tasks[1]) /\ ~HasFallback(tasks[1].req))
        /\ out.status = "error" =>
               /\ out.error = "RateUnresolved"
               /\ tasks[1].named = {tasks[1].req.from_currency,
                                    tasks[1].req.to_currency}
        /\ out.status # "error" => (out.status = "ok" /\ Len(out.results) = 1)

C5_Witness ==
    /\ ConvertReturned /\ client /\ reachable
    /\ out.status = "error" /\ out.error = "RateUnresolved"
    /\ tasks[1].named = {"GBP", "JPY"}

\* C6: a convert of an amount <= 0 fails with InvalidAmount without a cache
\* or provider call, whatever the pair.
C6_InvalidAmountFirst ==
    \A i \in 1..Len(tasks) :
        (Done(i) /\ tasks[i].req.amount <= 0) =>
            /\ tasks[i].status = "error" /\ tasks[i].error = "InvalidAmount"
            /\ tasks[i].gets = 0 /\ tasks[i].sets = 0 /\ tasks[i].fetches = 0
            /\ tasks[i].setAt = -1

C6_Witness ==
    /\ ConvertReturned /\ client /\ reachable
    /\ tasks[1].req.amount <= 0 /\ Identity(tasks[1].req)
    /\ out.status = "error" /\ out.error = "InvalidAmount"

Successes == {i \in 1..Len(tasks) : tasks[i].status = "ok"}

\* C7: a batch with a success returns one result per successful request and
\* none for a failed one; every request ran to its end and a failed one wrote
\* nothing to the cache.
C7_PartialFailure ==
    (BatchReturned /\ Successes # {}) =>
        /\ out.status = "ok"
        /\ Len(out.results) = Cardinality(Successes)
        /\ \A i \in Successes :
               \E j \in 1..Len(out.results) :
                   out.results[j] = ConversionResponse(tasks[i])
        /\ \A i \in 1..Len(tasks) :
               /\ tasks[i].pc = "done"
               /\ tasks[i].status = "error" => tasks[i].sets = 0

C7_Witness ==
    /\ BatchReturned /\ Len(tasks) = 3
    /\ Cardinality({i \in 1..3 : tasks[i].req.amount = 0}) = 1
    /\ Cardinality(Successes) = 2
    /\ Len(out.results) = 2

\* C8: a batch fails with BatchExhausted exactly when every request failed;
\* otherwise it returns the successful ones.
C8_ExhaustedExactly ==
    BatchReturned =>
        /\ out.status = "error" <=> Successes = {}
        /\ out.status = "error" => out.error = "BatchExhausted"
        /\ out.status # "error" =>
               (out.status = "ok" /\ Len(out.results) = Cardinality(Successes))

C8_Witness ==
    /\ BatchReturned /\ Len(tasks) = 3 /\ Successes = {}
    /\ \E i \in 1..3 : tasks[i].error = "RateUnresolved"
    /\ out.status = "error" /\ out.error = "BatchExhausted"

\* what provider-then-fallback gives the task, whatever the cache does
Uncached(t) ==
    IF t.quote # None THEN t.quote
    ELSE IF HasFallback(t.req)
         THEN fallback_rates[<<t.req.from_currency, t.req.to_currency>>]
         ELSE None

MatchesUncached(t) ==
    /\ t.fetches = 1
    /\ t.rate = Uncached(t)
    /\ t.status = IF Uncached(t) = None THEN "error" ELSE "ok"
    /\ t.status = "ok" =>
           t.converted = Round2(RatMul(Rat(t.req.amount, 1), Uncached(t)))

\* C9: without a Redis client a convert goes to the provider, then the
\* fallback table, returns what it returns on a miss of a connected cache,
\* says cached false, and get_cache_stats answers not_connected.
C9_DegradedMode ==
    /\ (ConvertReturned /\ tasks[1].req.amount > 0 /\ ~Identity(tasks[1].req)) =>
           /\ ~client => (MatchesUncached(tasks[1]) /\ ~tasks[1].cached)
           /\ (client /\ tasks[1].src # "cache") => MatchesUncached(tasks[1])
    /\ (phase = "returned" /\ op = "get_cache_stats" /\ ~client) =>
           (out.status = "ok" /\ out.stats = "not_connected")

C9_Witness ==
    /\ ConvertReturned /\ ~client /\ prev.op = "get_cache_stats"
    /\ tasks[1].src = "provider" /\ out.status = "ok"
    /\ out.results[1].cached = FALSE

\* C10: with the store unreachable no RedisCache call raises or changes the
\* store: get gives None, exists False, mget an empty mapping.
C10_CacheNeverRaises ==
    (ret.op # "none" /\ ret.unreachable) =>
        /\ ~ret.raised
        /\ ~ret.changed
        /\ ret.op = "get" => ret.value = None
        /\ ret.op = "exists" => ret.value = FALSE
        /\ ret.op = "mget" => ret.value = Empty

C10_Witness ==
    /\ ret.op = "mset" /\ ret.unreachable /\ client
    /\ ~ret.raised /\ store # Empty

ClearReturned == phase = "returned" /\ op = "clear_cache"

DirectReturned == phase = "returned" /\ op = "get_rate_direct"

HealthReturned == phase = "returned" /\ op = "health_check"

\* C11: clear_cache empties the store through RedisCache.clear, and when the
\* store's FLUSHDB fails it fails with CacheError instead of returning.
C11_ClearFailureRaises ==
    ClearReturned =>
        /\ ~ret.unreachable => (out.status = "ok" /\ ret.value.left = {})
        /\ ret.value.flushdb_failed =>
               (out.status = "error" /\ out.error = "CacheError")

\* the value the cache holds for the task's pair
Held(t) == store[KeyOf(t.req)].data.json

\* C12: when the cache holds a value for the pair, the resolution returns that
\* value, and neither calls the provider, nor takes the fallback rate, nor
\* writes the cache.
C12_CacheHitIsAuthoritative ==
    [][\A i \in 1..Len(tasks) :
          /\ (/\ Running(i) /\ tasks[i].pc = "start" /\ tasks'[i].pc # "start"
              /\ tasks[i].req.amount > 0 /\ ~Identity(tasks[i].req)
              /\ client /\ reachable /\ KeyOf(tasks[i].req) \in DOMAIN store) =>
                 /\ tasks'[i].src = "cache"
                 /\ tasks'[i].rate = Held(tasks[i])
                 /\ store' = store
          /\ (Running(i) /\ tasks[i].src = "cache") =>
                 /\ tasks'[i].src = "cache"
                 /\ tasks'[i].rate = tasks[i].rate
                 /\ tasks'[i].fetches = 0 /\ tasks'[i].sets = 0
                 /\ tasks'[i] # tasks[i] => store' = store
                 /\ (phase' = "returned" /\ out'.status = "ok") =>
                        out'.results[1].rate = tasks[i].rate
      ]_vars

C12_Witness ==
    /\ ConvertReturned /\ tasks[1].src = "cache" /\ tasks[1].hadEntry
    /\ prev.op = "convert" /\ prev.src = "provider"
    /\ out.status = "ok" /\ out.results[1].rate = Rat(1, 2)
    /\ tasks[1].fetches = 0 /\ tasks[1].sets = 0

\* C13: convert and get_rate_direct (with or without use_cache) take the
\* fallback rate after a provider failure, and fail only when the fallback
\* table has no entry for the pair.
C13_FallbackBeforeError ==
    ((ConvertReturned \/ DirectReturned) /\ ProviderFailed(tasks[1])) =>
        IF HasFallback(tasks[1].req)
        THEN /\ out.status = "ok"
             /\ tasks[1].rate = fallback_rates[<<tasks[1].req.from_currency,
                                                 tasks[1].req.to_currency>>]
        ELSE out.status = "error" /\ out.error = "RateUnresolved"

\* C14: a convert calls the provider at most once; after a provider failure it
\* takes the fallback rate or fails, without a second provider call.
C14_NoRetry ==
    \A i \in 1..Len(tasks) :
        /\ tasks[i].fetches <= 1
        /\ (Done(i) /\ tasks[i].fetches > 0 /\ tasks[i].quote = None) =>
               /\ tasks[i].fetches = 1
               /\ \/ tasks[i].src = "fallback"
                  \/ tasks[i].status = "error" /\ tasks[i].error = "RateUnresolved"

C14_Witness ==
    /\ ConvertReturned /\ client /\ reachable
    /\ ProviderFailed(tasks[1]) /\ tasks[1].src = "fallback"
    /\ out.status = "ok" /\ tasks[1].fetches = 1

\* C15: a convert fails with InvalidAmount or RateUnresolved only: no error of
\* the provider and no cache error leaves convert.
C15_ConvertErrorKinds ==
    /\ \A i \in 1..Len(tasks) :
           tasks[i].status = "error" =>
               tasks[i].error \in {"InvalidAmount", "RateUnresolved"}
    /\ ConvertReturned =>
           /\ out.status \in {"ok", "error"}
           /\ out.status = "error" =>
                  out.error \in {"InvalidAmount", "RateUnresolved"}

C15_Witness ==
    /\ ConvertReturned /\ client /\ tasks[1].cacheFailed
    /\ tasks[1].gets = 1 /\ ProviderFailed(tasks[1])
    /\ out.status = "error" /\ out.error = "RateUnresolved"

\* the tasks whose SETEX reached the store
Writers ==
    {i \in 1..Len(tasks) :
         tasks[i].sets > 0 /\ client /\ ~tasks[i].cacheFailed}

\* the tasks that wrote the cache under key k
WritersOf(k) == {i \in Writers : KeyOf(tasks[i].req) = k}

\* every entry is under the key of a task that wrote, and holds the rate one
\* of that key's writers resolved; a rate read from the cache is a rate a task
\* of the same pair wrote
OwnKeyOnly ==
    /\ \A k \in DOMAIN store :
           \E i \in WritersOf(k) : store[k].data = JsonDumps(tasks[i].rate)
    /\ \A i \in Writers : KeyOf(tasks[i].req) \in DOMAIN store
    /\ \A i \in 1..Len(tasks) :
           (tasks[i].src = "cache" \/ tasks[i].cached) =>
               \E j \in WritersOf(KeyOf(tasks[i].req)) :
                   tasks[j].rate = tasks[i].rate

OneWriterPerKey ==
    \A i \in Writers, j \in Writers :
        i # j => KeyOf(tasks[i].req) # KeyOf(tasks[j].req)

\* C16 as claimed: in a batch every resolution reads and writes the key of its
\* own pair only, and no key is written by more than one resolution.
C16_OwnKeySingleWriter ==
    op = "convert_batch" => (OwnKeyOnly /\ OneWriterPerKey)

\* C16 amended: every resolution reads and writes the key of its own pair
\* only; resolutions of the same pair may each write that key, and the entry
\* holds the rate of one of them.
C16_OwnKeyLastWriteWins ==
    op = "convert_batch" => OwnKeyOnly

C16_Witness ==
    /\ BatchReturned /\ client /\ reachable /\ Len(tasks) = 3
    /\ Writers = {1, 2, 3}
    /\ KeyOf(tasks[1].req) = KeyOf(tasks[2].req)
    /\ KeyOf(tasks[3].req) # KeyOf(tasks[1].req)
    /\ tasks[1].rate # tasks[2].rate
    /\ store[KeyOf(tasks[1].req)].data = JsonDumps(tasks[1].rate)
    /\ Cardinality(DOMAIN store) = 2

\* C17: health_check never raises; it says healthy exactly when the Redis
\* ping and the one provider probe (USD to EUR) both succeed, and degraded
\* when either fails.
C17_HealthNeverRaises ==
    HealthReturned =>
        LET h == ret.value.health
            rates == ret.value.probe.rates
            pinged == ~ret.unreachable
            probed == /\ ret.value.probe.kind = "ok"
                      /\ "USD" \in DOMAIN rates
                      /\ rates["USD"] # 0
        IN  /\ ~ret.raised /\ out.status = "ok"
            /\ h.status \in {"healthy", "degraded", "error"}
            /\ h.status = "healthy" <=> (pinged /\ probed)
            /\ (~pinged \/ ~probed) => h.status = "degraded"
            /\ h.cache = "connected" <=> pinged
            /\ h.api = "available" <=> probed
            /\ ret.value.requests = 1

C17_Witness ==
    /\ HealthReturned /\ client /\ ~ret.unreachable
    /\ ret.value.health.status = "healthy"
    /\ ret.value.probe.kind = "ok"
    /\ prev.op = "health_check" /\ calls = 2

GetRateReturned == ret.op = "get_rate"

\* the entry of code c in the snapshot of the last get_rate
Entry(c) == Rat(ret.value.snapshot.rates[c], 1)

\* the snapshot of the last get_rate has a strictly positive entry for c
Positive(v, c) ==
    /\ v.snapshot.kind = "ok"
    /\ c \in DOMAIN v.snapshot.rates
    /\ v.snapshot.rates[c] > 0

\* C18: get_rate gives 1.0 without a provider request for from = to;
\* otherwise, from the EUR-based snapshot, rates[to] when from is EUR,
\* 1 / rates[from] when to is EUR, and rates[to] / rates[from] for any other pair.
C18_PairRate ==
    GetRateReturned =>
        LET v == ret.value
            r == v.result
            f == v.from_currency
            t == v.to_currency
            have == IF v.snapshot.kind = "ok" THEN DOMAIN v.snapshot.rates ELSE {}
        IN  /\ f = t => (r.ok /\ r.rate = One /\ r.requests = 0)
            /\ f # t => r.requests = 1
            /\ (f # t /\ \A c \in RateTargets(f, t) : Positive(v, c)) => r.ok
            /\ (f # t /\ r.ok) =>
                   /\ f = "EUR" => (t \in have /\ r.rate = Entry(t))
                   /\ t = "EUR" =>
                          (f \in have /\ r.rate = RatDiv(One, Entry(f)))
                   /\ (f # "EUR" /\ t # "EUR") =>
                          /\ {f, t} \subseteq have
                          /\ r.rate = RatDiv(Entry(t), Entry(f))

C18_Witness ==
    /\ GetRateReturned /\ ret.value.result.ok
    /\ ret.value.from_currency = "GBP" /\ ret.value.to_currency = "JPY"
    /\ ret.value.snapshot.rates = ("GBP" :> 3) @@ ("JPY" :> 7)
    /\ ret.value.result.rate = Rat(7, 3)

\* the provider answered the last get_rate with a payload of rates
Answered == GetRateReturned /\ ret.value.snapshot.kind = "ok"
                /\ ret.value.from_currency # ret.value.to_currency

\* the codes get_rate needs that the payload does not hold
Missing(v) == RateTargets(v.from_currency, v.to_currency) \ DOMAIN v.snapshot.rates

\* the codes get_rate needs as a divisor or for a cross rate whose entry is zero
ZeroEntries(v) ==
    IF v.from_currency = "EUR" THEN {}
    ELSE {c \in RateTargets(v.from_currency, v.to_currency) \cap DOMAIN v.snapshot.rates :
              v.snapshot.rates[c] = 0}

Unavailable(v) ==
    /\ ~v.result.ok /\ v.result.error = "RateUnavailable"
    /\ v.result.available = DOMAIN v.snapshot.rates

Tolerance == Rat(1, 2^(FloatBits - 2))

\* |x - 1| <= Tolerance
NearOne(x) ==
    Abs(x[1] * Tolerance[2] - x[2] * Tolerance[2]) <= x[2] * Tolerance[1]

\* the last two get_rate calls were of a pair and its reverse on one snapshot
\* with a strictly positive entry for every code they need
RoundTrip ==
    /\ GetRateReturned /\ ret.value.last # None
    /\ ret.value.from_currency # ret.value.to_currency
    /\ ret.value.last.from_currency = ret.value.to_currency
    /\ ret.value.last.to_currency = ret.value.from_currency
    /\ ret.value.last.snapshot = ret.value.snapshot
    /\ \A c \in RateTargets(ret.value.from_currency, ret.value.to_currency) :
           Positive(ret.value, c)

\* the product, in float arithmetic, of the floats nearest to two quotients
FloatProduct(a, b) == FloatMul(FloatOf(a), FloatOf(b))

\* C20: get_rate(A, B) times get_rate(B, A) on one snapshot is 1 within the
\* tolerance of float arithmetic.
C20_RoundTrip ==
    RoundTrip =>
        /\ ret.value.result.ok /\ ret.value.last.result.ok
        /\ NearOne(FloatProduct(ret.value.last.result.rate, ret.value.result.rate))

C20_Witness ==
    /\ RoundTrip
    /\ ret.value.from_currency = "JPY" /\ ret.value.to_currency = "GBP"
    /\ ret.value.snapshot.rates = ("GBP" :> 3) @@ ("JPY" :> 7)
    /\ FloatProduct(ret.value.last.result.rate, ret.value.result.rate) # One
    /\ RatMul(ret.value.last.result.rate, ret.value.result.rate) = One

MultipleReturned == ret.op = "get_multiple_rates"

ExchangeRatesReturned == ret.op = "get_exchange_rates"

\* the rate of from -> to that a snapshot's entries give
PairFrom(from_currency, to_currency) ==
    IF from_currency = to_currency THEN One
    ELSE IF from_currency = "EUR" THEN Entry(to_currency)
    ELSE IF to_currency = "EUR" THEN RatDiv(One, Entry(from_currency))
    ELSE RatDiv(Entry(to_currency), Entry(from_currency))

\* C21: get_multiple_rates makes exactly one provider request whatever the
\* number of targets, for the set of from and all targets minus EUR, and every
\* rate it returns is derived from that one snapshot.
C21_OneRequestOneSnapshot ==
    MultipleReturned =>
        LET v == ret.value
            r == v.result
        IN  /\ r.requests = 1
            /\ r.asked = ({v.from_currency} \cup v.to_currencies) \ {"EUR"}
            /\ r.ok => \A t \in DOMAIN r.result :
                   /\ t \in v.to_currencies
                   /\ t # v.from_currency =>
                          RateTargets(v.from_currency, t)
                              \subseteq DOMAIN v.snapshot.rates
                   /\ r.result[t] = PairFrom(v.from_currency, t)

C21_Witness ==
    /\ MultipleReturned /\ ret.value.result.ok
    /\ ret.value.from_currency = "GBP"
    /\ ret.value.to_currencies = {"EUR", "GBP", "JPY"}
    /\ ret.value.snapshot.rates = ("GBP" :> 3) @@ ("JPY" :> 7)
    /\ ret.value.result.requests = 1
    /\ ret.value.result.asked = {"GBP", "JPY"}
    /\ ret.value.result.result =
           ("EUR" :> Rat(1, 3)) @@ ("GBP" :> One) @@ ("JPY" :> Rat(7, 3))

\* the targets of the last get_multiple_rates that its snapshot can give:
\* the identity, or every entry the pair needs is there and not zero
Derivable(v) ==
    {t \in v.to_currencies :
        \/ t = v.from_currency
        \/ \A c \in RateTargets(v.from_currency, t) : Positive(v, c)}

\* C22: when the provider request succeeds, get_multiple_rates fails only if
\* no requested target can be derived; otherwise it returns a mapping of
\* exactly the derivable targets and leaves the others out without failing.
C22_PartialResults ==
    (MultipleReturned /\ ret.value.snapshot.kind = "ok") =>
        LET v == ret.value
            r == v.result
        IN  /\ ~r.ok <=> Derivable(v) = {}
            /\ ret.raised <=> ~r.ok
            /\ r.ok => DOMAIN r.result = Derivable(v)

C22_Witness ==
    /\ MultipleReturned /\ ret.value.result.ok /\ ~ret.raised
    /\ ret.value.from_currency = "GBP"
    /\ ret.value.to_currencies = {"EUR", "JPY"}
    /\ ret.value.snapshot.rates = ("GBP" :> 3)
    /\ ret.value.result.result = ("EUR" :> Rat(1, 3))

\* the last direct call on the provider client made a request and the
\* provider answered it with a failure
RequestFailed ==
    /\ ret.op \in {"get_rate", "get_multiple_rates", "get_exchange_rates"}
    /\ ret.value.snapshot.kind # "ok"
    /\ ret.op = "get_rate" => ret.value.from_currency # ret.value.to_currency

\* the last direct call raised the provider's failure and returned nothing
Propagated ==
    /\ ret.raised /\ ~ret.value.result.ok
    /\ ret.value.result.error = ret.value.snapshot.kind
    /\ ret.op = "get_rate" => ret.value.result.rate = None
    /\ ret.op = "get_multiple_rates" => ret.value.result.result = Empty
    /\ ret.op = "get_exchange_rates" => ret.value.result.rates = Empty

\* the codes the last direct call needs, or was asked for, that the payload
\* does not hold
Absent ==
    IF ret.value.snapshot.kind # "ok" THEN {}
    ELSE IF ret.op = "get_rate"
    THEN IF ret.value.from_currency = ret.value.to_currency THEN {}
         ELSE Missing(ret.value)
    ELSE IF ret.op = "get_multiple_rates"
    THEN UNION {RateTargets(ret.value.from_currency, t) :
                   t \in ret.value.to_currencies \ {ret.value.from_currency}}
             \ DOMAIN ret.value.snapshot.rates
    ELSE IF ret.op = "get_exchange_rates"
    THEN ret.value.target_currencies \ DOMAIN ret.value.snapshot.rates
    ELSE {}

\* C23 as claimed: a transport error, a non-2xx status, an error payload and
\* a missing rate each propagate out of get_exchange_rates, get_rate and
\* get_multiple_rates as an error, and no value is returned after one.
C23_EveryFailurePropagates ==
    /\ RequestFailed => Propagated
    /\ (ret.op \in {"get_rate", "get_multiple_rates", "get_exchange_rates"}
           /\ Absent # {}) => ret.raised

\* C23: a transport error, a non-2xx status and an error payload propagate out
\* of get_exchange_rates, get_rate and get_multiple_rates, and no value is
\* returned after one.  A missing rate propagates out of get_rate; out of
\* get_multiple_rates only when no target can be derived; get_exchange_rates
\* returns the payload's rates as received.
C23_FailuresPropagate ==
    /\ RequestFailed => Propagated
    /\ (GetRateReturned /\ Absent # {}) =>
           (ret.raised /\ ret.value.result.error = "RateUnavailable")
    /\ (MultipleReturned /\ ret.value.snapshot.kind = "ok") =>
           (ret.raised <=> Derivable(ret.value) = {})
    /\ (ExchangeRatesReturned /\ ret.value.snapshot.kind = "ok") =>
           /\ ~ret.raised
           /\ ret.value.result.rates =
                  [c \in DOMAIN ret.value.snapshot.rates |->
                      Rat(ret.value.snapshot.rates[c], 1)]

C23_Witness ==
    /\ MultipleReturned /\ RequestFailed /\ Propagated
    /\ ret.value.snapshot.kind = "HTTPStatusError"
    /\ ret.value.to_currencies = {"EUR", "JPY"}

\* the strings exchange_rate:{FROM}:{TO}, of the ordered pairs they name
KeyForms ==
    [p \in Currency \X Currency |-> "exchange_rate:" \o p[1] \o ":" \o p[2]]

\* two ordered pairs that differ have keys that differ
CacheKeyInjective ==
    \A p \in Currency \X Currency : \A q \in Currency \X Currency :
        cache_key(p[1], p[2]) = cache_key(q[1], q[2]) => p = q

CacheKeyLiteral ==
    \A p \in Currency \X Currency : cache_key(p[1], p[2]) = KeyForms[p]

\* the tasks of the running or returned call whose SETEX reached the store
Written == {i \in 1..Len(tasks) : tasks[i].sets > 0 /\ client /\ ~tasks[i].cacheFailed}

\* C24: the cache key of a pair is the string exchange_rate:{FROM}:{TO} of
\* the ordered pair's codes; ordered pairs that differ, a pair and its reverse
\* included, have keys that differ; every key the service writes has this form
\* and is the key of the pair it resolved.
C24_CacheKeyForm ==
    /\ cache_key("USD", "EUR") = "exchange_rate:USD:EUR"
    /\ cache_key("EUR", "USD") = "exchange_rate:EUR:USD"
    /\ CacheKeyLiteral
    /\ CacheKeyInjective
    /\ \A k \in DOMAIN store : \E p \in Currency \X Currency : k = KeyForms[p]
    /\ \A i \in Written :
           /\ KeyOf(tasks[i].req)
                  = KeyForms[<<tasks[i].req.from_currency, tasks[i].req.to_currency>>]
           /\ now < tasks[i].setAt + ttl => KeyOf(tasks[i].req) \in DOMAIN store

C24_Witness ==
    /\ phase = "returned" /\ op = "convert" /\ Written = {1}
    /\ DOMAIN store = {"exchange_rate:USD:UZS", "exchange_rate:UZS:USD"}
    /\ store["exchange_rate:USD:UZS"] # store["exchange_rate:UZS:USD"]

\* C25: every response convert returns has rate > 0, whatever the provider's
\* payload and the cached value.
C25_PositiveRate ==
    (ConvertReturned /\ out.status = "ok") => out.results[1].rate[1] > 0

\* task i takes the step of convert that reads the cache for its pair
ReadsCache(i) ==
    /\ phase = "running" /\ phase' = "running"
    /\ tasks[i].pc = "start" /\ tasks'[i].pc \in {"check", "fetch"}

\* task i takes the step of convert that follows a cache miss
AfterMiss(i) ==
    /\ phase = "running" /\ phase' = "running"
    /\ tasks[i].pc = "fetch" /\ tasks'[i].pc # "fetch"

\* C26: an entry is written with the configured TTL of 1800 s; it stays in
\* the cache, and a convert of its pair reads it, while the TTL runs; once the
\* TTL has run out it is gone, and the convert of that pair that comes next
\* misses the cache and calls the provider again.
C26_EntryLivesForTTL ==
    [][ /\ ttl = 1800
        /\ \A k \in DOMAIN store' :
               (k \notin DOMAIN store \/ store'[k] # store[k]) =>
                   store'[k].exp = now + 1800
        /\ \A k \in DOMAIN store : now' < store[k].exp => k \in DOMAIN store'
        /\ \A k \in DOMAIN store' : now' < store'[k].exp
        /\ \A i \in 1..Len(tasks) :
               /\ ReadsCache(i) =>
                      IF KeyOf(tasks[i].req) \in DOMAIN store /\ client /\ reachable
                      THEN /\ tasks'[i].pc = "check" /\ tasks'[i].src = "cache"
                           /\ store[KeyOf(tasks[i].req)].data
                                  = JsonDumps(tasks'[i].rate)
                           /\ tasks'[i].fetches = 0
                      ELSE tasks'[i].pc = "fetch"
               /\ AfterMiss(i) => tasks'[i].fetches = 1
      ]_vars

\* a convert, two ticks after a convert of the same pair wrote the entry,
\* found no entry and fetched a new rate
C26_Witness ==
    /\ ConvertReturned /\ out.status = "ok" /\ client
    /\ prev.op = "convert" /\ prev.status = "ok"
    /\ prev.from_currency = tasks[1].req.from_currency
    /\ prev.to_currency = tasks[1].req.to_currency
    /\ prev.src = "provider" /\ ~prev.cacheFailed
    /\ prev.at = 0 /\ prev.until = 1800 /\ out.at = 1800
    /\ ~tasks[1].hadEntry /\ tasks[1].src = "provider" /\ tasks[1].fetches = 1
    /\ tasks[1].rate # prev.rate

\* c, a number of hundredths, is amount * rate rounded to the hundredth:
\* no further from the product than half a hundredth, and even on a tie
NearestCent(amount, rate, c) ==
    LET q == rate[1] \div rate[2]
        r == rate[1] % rate[2]
        cents == c[1] * (100 \div c[2])
        off == Abs((cents - 100 * amount * q) * rate[2] - 100 * amount * r)
    IN  /\ 100 % c[2] = 0
        /\ 2 * off <= rate[2]
        /\ 2 * off = rate[2] => cents % 2 = 0

\* x is about y: they differ by no more than half of one part in unit
About(x, y, unit) ==
    2 * unit * Abs(x[1] * y[2] - y[1] * x[2]) <= x[2] * y[2]

\* convert returned a response for a pair of two currencies
Converted ==
    /\ ConvertReturned /\ out.status = "ok"
    /\ out.results[1].from_currency # out.results[1].to_currency

\* convert(100, USD -> UZS) resolved its rate from the provider's snapshot
\* {USD: 1.0869, UZS: 13870.5}
Scenario ==
    /\ Converted /\ tasks[1].src = "provider"
    /\ out.results[1].amount = 100
    /\ out.results[1].from_currency = "USD" /\ out.results[1].to_currency = "UZS"
    /\ tasks[1].quote = RatDiv(Rat(138705, 10), Rat(10869, 10000))

\* C27 as claimed: converted_amount is amount times the resolved rate,
\* rounded to 2 decimals; in the scenario the rate is about 12762.9 and
\* converted_amount about 1276290.00.
C27_RoundedProductAsQuoted ==
    /\ Converted =>
           NearestCent(out.results[1].amount, out.results[1].rate,
                       out.results[1].converted_amount)
    /\ Scenario =>
           /\ About(out.results[1].rate, Rat(127629, 10), 10)
           /\ About(out.results[1].converted_amount, Rat(1276290, 1), 100)

\* C27: converted_amount is amount times the resolved rate, rounded to 2
\* decimals; in the scenario the rate is about 12761.5 and converted_amount
\* is 1276152.36.
C27_RoundedProduct ==
    /\ Converted =>
           NearestCent(out.results[1].amount, out.results[1].rate,
                       out.results[1].converted_amount)
    /\ Scenario =>
           /\ About(out.results[1].rate, Rat(127615, 10), 10)
           /\ out.results[1].converted_amount = Rat(127615236, 100)

C27_Witness ==
    /\ Scenario
    /\ out.results[1].rate = Rat(46235000, 3623)
    /\ out.results[1].converted_amount = Rat(127615236, 100)

\* the keys whose entry this step wrote
WrittenNow ==
    {k \in DOMAIN store' : k \notin DOMAIN store \/ store'[k] # store[k]}

\* in this step task i got a rate from the provider client and wrote it
\* under key k
WroteFetched(i, k) ==
    /\ phase = "running" /\ phase' = "running"
    /\ tasks[i].pc = "fetch" /\ tasks'[i].pc # "fetch"
    /\ k = cache_key(tasks[i].req.from_currency, tasks[i].req.to_currency)
    /\ tasks'[i].src = "provider" /\ tasks'[i].quote # None
    /\ store'[k].data = JsonDumps(tasks'[i].quote)

\* task i made a provider request in this step
Requested(i) == tasks'[i].fetches = tasks[i].fetches + 1

\* C28: every entry is written right after a successful provider fetch for
\* its ordered pair and holds the rate that fetch returned; no fallback value
\* and no identity rate is written.
C28_WrittenAfterFetch ==
    [][ \A k \in WrittenNow : \E i \in 1..Len(tasks) :
            /\ WroteFetched(i, k) /\ Requested(i)
            /\ tasks[i].req.from_currency # tasks[i].req.to_currency
      ]_vars

\* C29: health_check neither reads nor writes a rate entry: its provider
\* probe is one live request whose outcome alone decides api, whatever the
\* cache holds, and the cache is as it was before the call.
C29_HealthLeavesCache ==
    HealthReturned =>
        LET h == ret.value.health
            rates == ret.value.probe.rates
            probed == /\ ret.value.probe.kind = "ok"
                      /\ "USD" \in DOMAIN rates
                      /\ rates["USD"] # 0
        IN  /\ store = ret.value.before
            /\ ret.value.requests = 1
            /\ h.api = "available" <=> probed
            /\ h.api = "unavailable" <=> ~probed

C29_Witness ==
    /\ HealthReturned /\ client /\ reachable
    /\ ret.value.probe.kind = "RequestError"
    /\ ret.value.health.api = "unavailable"
    /\ "exchange_rate:USD:EUR" \in DOMAIN store
    /\ store = ret.value.before

\* get_rate_direct without use_cache is running
Bypassing == op = "get_rate_direct" /\ phase = "running" /\ ~tasks[1].req.use_cache

\* C30: get_rate_direct without use_cache never reads and never writes the
\* cache: no step of it changes the cache, and it returns the rate the
\* provider client gave, whatever is cached for the pair.
C30_DirectBypassesCache ==
    [][ Bypassing =>
            /\ store' = store
            /\ tasks'[1].gets = 0 /\ tasks'[1].sets = 0
            /\ tasks'[1].src \in {"none", "provider"}
            /\ (phase' = "returned" /\ out'.status = "ok") =>
                   /\ tasks[1].quote # None
                   /\ out'.results = <<tasks[1].quote>>
      ]_vars

C30_Witness ==
    /\ DirectReturned /\ out.status = "ok" /\ ~tasks[1].req.use_cache
    /\ client /\ reachable
    /\ tasks[1].req.from_currency = "USD" /\ tasks[1].req.to_currency = "EUR"
    /\ tasks[1].fetches = 1 /\ tasks[1].gets = 0 /\ tasks[1].sets = 0
    /\ KeyOf(tasks[1].req) \in DOMAIN store
    /\ store[KeyOf(tasks[1].req)].data # JsonDumps(out.results[1])

\* the position in the batch of the j-th request that succeeded
NthSuccess(j) ==
    CHOOSE i \in Successes : Cardinality({k \in Successes : k < i}) = j - 1

\* C31: a batch returns its successful results in the order of their
\* requests, whatever the order in which the conversions completed.
C31_ResultsInRequestOrder ==
    (BatchReturned /\ out.status = "ok") =>
        /\ Len(out.results) = Cardinality(Successes)
        /\ \A j \in 1..Len(out.results) :
               out.results[j] = ConversionResponse(tasks[NthSuccess(j)])

\* the third conversion read back its own rate, which the first one then
\* overwrote: the third completed before the first
C31_Witness ==
    /\ BatchReturned /\ client /\ reachable /\ Len(tasks) = 3
    /\ Successes = {1, 3} /\ Writers = {1, 3}
    /\ KeyOf(tasks[1].req) = KeyOf(tasks[3].req)
    /\ tasks[1].rate # tasks[3].rate
    /\ tasks[3].cached
    /\ store[KeyOf(tasks[1].req)].data = JsonDumps(tasks[1].rate)
    /\ out.results = <<ConversionResponse(tasks[1]), ConversionResponse(tasks[3])>>

\* C32: a batch of no requests fails with BatchExhausted; it does not return
\* an empty list of results.
C32_EmptyBatchExhausted ==
    (BatchReturned /\ tasks = <<>>) =>
        /\ out.status = "error"
        /\ out.error = "BatchExhausted"
        /\ out.results = <<>>

C32_Witness ==
    /\ BatchReturned /\ tasks = <<>>
    /\ out.status = "error" /\ out.error = "BatchExhausted"
    /\ store = Empty

\* the conversions of the batch for the pair under key k that found no entry
MissedTogether(k) ==
    {i \in 1..Len(tasks) :
         /\ KeyOf(tasks[i].req) = k
         /\ tasks[i].req.amount > 0 /\ ~Identity(tasks[i].req)
         /\ ~tasks[i].hadEntry}

\* C33: when several conversions of one batch are for the same uncached pair
\* and the provider fails for none of them, each succeeds with the rate of
\* its own single provider call, and once all are done the entry of the pair
\* holds the rate one of them fetched (no entry without a usable cache).
C33_ConcurrentSamePair ==
    BatchReturned =>
        \A k \in {KeyOf(r) : r \in BatchRequests} :
            (/\ Cardinality(MissedTogether(k)) >= 2
             /\ \A i \in MissedTogether(k) : ~ProviderFailed(tasks[i])) =>
                /\ \A i \in MissedTogether(k) :
                       /\ tasks[i].status = "ok"
                       /\ tasks[i].fetches = 1
                       /\ tasks[i].src = "provider"
                       /\ tasks[i].rate = tasks[i].quote
                /\ (client /\ reachable) =>
                       /\ k \in DOMAIN store
                       /\ \E i \in MissedTogether(k) :
                              store[k].data = JsonDumps(tasks[i].quote)
                /\ ~(client /\ reachable) => k \notin DOMAIN store

\* three conversions of one pair missed together and fetched two different
\* rates; the entry holds the rate of the second one
C33_Witness ==
    /\ BatchReturned /\ client /\ reachable /\ Len(tasks) = 3
    /\ MissedTogether(KeyOf(tasks[1].req)) = {1, 2, 3}
    /\ \A i \in 1..3 : tasks[i].fetches = 1 /\ tasks[i].status = "ok"
    /\ tasks[1].quote = tasks[3].quote
    /\ tasks[2].quote # tasks[1].quote
    /\ store[KeyOf(tasks[1].req)].data = JsonDumps(tasks[2].quote)
    /\ Len(out.results) = 3

\* what get_rate gives for the pair of the last get_multiple_rates' from and
\* the target t, on the snapshot that call got
PairRateOnSnapshot(t) ==
    ExchangeRateClient_get_rate(ret.value.from_currency, t, ret.value.snapshot)

\* the mapping agrees with get_rate on target t: the same value when t is in
\* it, and t is left out exactly when get_rate fails with RateUnavailable
AgreesWithPairRate(t) ==
    LET mapping == ret.value.result.result
        single == PairRateOnSnapshot(t)
    IN  /\ t \in DOMAIN mapping => (single.ok /\ single.rate = mapping[t])
        /\ t \notin DOMAIN mapping <=>
               (~single.ok /\ single.error = "RateUnavailable")

\* C34: every target in the mapping get_multiple_rates returns has the value
\* get_rate computes from the same snapshot, and a target is absent from the
\* mapping exactly when get_rate would fail with RateUnavailable on it.
C34_ManyAgreesWithPair ==
    (MultipleReturned /\ ~ret.raised) =>
        \A t \in ret.value.to_currencies : AgreesWithPairRate(t)

\* the two agree on every target but one quoted at zero from the base
AgreesButZeroFromBase ==
    (MultipleReturned /\ ~ret.raised) =>
        \A t \in ret.value.to_currencies :
            \/ AgreesWithPairRate(t)
            \/ /\ ret.value.from_currency = "EUR"
               /\ t \in DOMAIN ret.value.snapshot.rates
               /\ ret.value.snapshot.rates[t] = 0
               /\ t \notin DOMAIN ret.value.result.result
               /\ PairRateOnSnapshot(t).ok
               /\ PairRateOnSnapshot(t).rate = Rat(0, 1)

HandleOps == {"get", "set", "delete"}

\* the last call was an operation on a RedisCache object that a
\* shutdown_redis has since its creation run over
OnOldHandle ==
    /\ ret.op \in HandleOps
    /\ handles[ret.value.handle].retired

\* the operation changed nothing and returned nothing
NoOp == ~ret.changed /\ ret.value.result = None

\* C35: get_redis returns the shared cache exactly when init_redis has
\* completed and shutdown_redis has not run since, and raises otherwise;
\* init_redis never raises; after shutdown every operation on an old handle
\* is a no-op.
C35_Lifecycle ==
    /\ ret.op = "get_redis" =>
           /\ ret.raised <=> ~initialized
           /\ ~ret.raised => ret.value.handle = Len(handles)
    /\ ret.op = "init_redis" => ~ret.raised
    /\ OnOldHandle => NoOp

\* what does hold of the lifecycle: init_redis never raises and publishes the
\* cache it returns; get_redis raises exactly when no cache is published; a
\* shutdown_redis that closed the client leaves no cache published and the
\* cache it shut down without a client; an operation on a cache without a
\* client is a no-op
LifecycleOfSharedCache ==
    /\ ret.op = "init_redis" =>
           /\ ~ret.raised
           /\ redis_cache = Len(handles) /\ ret.value.handle = redis_cache
    /\ initialized => redis_cache = Len(handles)
    /\ ret.op = "get_redis" =>
           /\ ret.raised <=> redis_cache = 0
           /\ ~ret.raised => ret.value.handle = Len(handles)
    /\ (ret.op = "shutdown_redis" /\ redis_cache = 0 /\ ret.value.handle # 0) =>
           /\ connection = 0
           /\ handles[ret.value.handle].client = 0
    /\ (ret.op = "shutdown_redis" /\ redis_cache # 0) => ret.unreachable
    /\ (ret.op \in HandleOps /\ handles[ret.value.handle].client = 0) => NoOp

====
